---- MODULE Spec2Model ----
(***************************************************************************)
(* Personnel and base-station registry (streamlit_app.py): the SQLite      *)
(* store of employees, stations and station_maintenance, the repository    *)
(* functions over it, the per-session form handlers of main() as sequences *)
(* of repository calls, and the read-side maintenance queries.             *)
(***************************************************************************)
EXTENDS Integers, Sequences, FiniteSets, TLC

VARIABLES
    stations,     \* table stations: a set of rows (records with an id)
    employees,    \* table employees
    maintenance,  \* table station_maintenance
    seq,          \* sqlite_sequence: last AUTOINCREMENT id handed out, per table
    now,          \* the process clock, in ticks (seconds)
    role,         \* st.session_state.role of each browser session
    sess,         \* the script run in progress in each browser session
    page,         \* the rows the last rendered page fetched, and its filter
    regionAt,     \* history: the region each maintenance record's station had at insert
    job,          \* the bulk import script in progress, if any
    disk,         \* the upload directories: path -> the file stored there
    upload,       \* the safe_write_file call in progress in each browser session
    conns,        \* the sqlite3 connections that are open
    session_state \* st.session_state of each browser session: the keys authed and page

vars == <<stations, employees, maintenance, seq, now, role, sess, page, regionAt,
          job, disk, upload, conns, session_state>>

\* what the form handlers leave alone
\* what only the connection steps and the login page change
others == <<conns, session_state>>

reads == <<page, job, disk, upload, others>>

(***************************************************************************)
(* Bounds of the model.                                                    *)
(***************************************************************************)
MaxIds == 2         \* ids handed out per entity table
MaxMaint == 2       \* rows of station_maintenance
MaxNow == 2         \* last tick of the clock
TicksPerDay == 2    \* ticks in one calendar day

Sessions == {"s1", "s2"}

(***************************************************************************)
(* Text.  A text value is a sequence of characters; the enumerated fields  *)
(* (region, type, status, paths) are only compared for equality and are    *)
(* strings.                                                                *)
(***************************************************************************)
Whitespace == {" "}

\* str.strip(): leading and trailing whitespace removed
RECURSIVE LStrip(_)
LStrip(s) ==
    IF s # <<>> /\ Head(s) \in Whitespace THEN LStrip(Tail(s)) ELSE s

RECURSIVE RStrip(_)
RStrip(s) ==
    IF s # <<>> /\ s[Len(s)] \in Whitespace
    THEN RStrip(SubSeq(s, 1, Len(s) - 1)) ELSE s

Strip(s) == RStrip(LStrip(s))

\* code points of the modelled characters (the order of SQLite's BINARY collation)
Code(c) ==
    CASE c = " " -> 32
      [] c = "%" -> 37
      [] c = "A" -> 65
      [] c = "_" -> 95
      [] c = "a" -> 97
      [] c = "b" -> 98
      [] c = "n" -> 110

\* s < t bytewise, a proper prefix first (memcmp, then length)
RECURSIVE TextLess(_, _)
TextLess(s, t) ==
    IF t = <<>> THEN FALSE
    ELSE IF s = <<>> THEN TRUE
    ELSE IF Head(s) = Head(t) THEN TextLess(Tail(s), Tail(t))
    ELSE Code(Head(s)) < Code(Head(t))

\* SQLite's LIKE folds the ASCII letters only
Fold(c) == IF c = "A" THEN "a" ELSE c

\* patternCompare of SQLite's LIKE: % any run, _ any one character
RECURSIVE LikeMatch(_, _)
LikeMatch(p, s) ==
    IF p = <<>> THEN s = <<>>
    ELSE IF Head(p) = "%"
         THEN \E k \in 0..Len(s) : LikeMatch(Tail(p), SubSeq(s, k + 1, Len(s)))
    ELSE IF s = <<>> THEN FALSE
    ELSE IF Head(p) = "_" THEN LikeMatch(Tail(p), Tail(s))
    ELSE Fold(Head(p)) = Fold(Head(s)) /\ LikeMatch(Tail(p), Tail(s))

(***************************************************************************)
(* The values the forms offer in this model.                               *)
(***************************************************************************)
ALL == "Vse"                              \* the filter sentinel
Regions == {"RRP", "VMKB"}                \* two of the select box's regions
OneRegion == {"RRP"}
RawKeys == {<<>>, <<" ">>, <<"a">>, <<"a", " ">>, <<"b">>}   \* typed business keys
NotesValues == {<<>>, <<"n">>}
NoNotes == {<<>>}
Uploads == {"", "photos/f.jpg"}           \* no upload, or the path safe_write_file returned

\* station_form: the tuple a station form returns, pdf/photo from the defaults
station_form(name, region, notes, pdf_file, photo_file) ==
    [name |-> name, location |-> <<>>, type |-> "Bazovaya", frequency |-> <<>>,
     power |-> <<>>, status |-> "Aktivna", contact |-> <<>>, notes |-> notes,
     region |-> region, pdf_file |-> pdf_file, photo_file |-> photo_file]

\* employee_form: the tuple an employee form returns, pdf/photo from the defaults
employee_form(rakami_tabel, pdf_file, photo_file) ==
    [rakami_tabel |-> rakami_tabel, last_name |-> <<>>, first_name |-> <<>>,
     nasab |-> <<>>, makon |-> "RRP", sanai_kabul |-> <<>>, vazifa |-> <<>>,
     phone |-> <<>>, dog_no |-> <<>>, pdf_file |-> pdf_file, photo_file |-> photo_file]

\* the columns of a row without its id
RowData(r) == [f \in (DOMAIN r) \ {"id"} |-> r[f]]

\* some columns of a row
Columns(r, used) == [f \in used |-> r[f]]

Files == {"pdf_file", "photo_file"}
StationColumns == {"id", "name", "location", "type", "frequency", "power", "status",
                   "contact", "notes", "region", "pdf_file", "photo_file"}
EmployeeColumns == {"id", "rakami_tabel", "last_name", "first_name", "nasab", "makon",
                    "sanai_kabul", "vazifa", "phone", "dog_no", "pdf_file", "photo_file"}

(***************************************************************************)
(* Repository layer: each function is one connection, one statement, one   *)
(* commit.  A statement returns the table after it, how it ended and, for  *)
(* an UPDATE, the number of rows it matched (cursor.rowcount).             *)
(***************************************************************************)
\* tabel_exists(rakami_tabel, exclude_id): exclude_id = 0 stands for None
tabel_exists(tbl, rakami_tabel, exclude_id) ==
    IF exclude_id = 0
    THEN \E r \in tbl : r.rakami_tabel = rakami_tabel
    ELSE \E r \in tbl : r.rakami_tabel = rakami_tabel /\ r.id # exclude_id

\* as INSERT OR REPLACE would: the row holding the key gives way
add_employee_or_replace(tbl, last, data) ==
    [tbl |-> {r \in tbl : r.rakami_tabel # data.rakami_tabel}
                \cup {[id |-> last + 1] @@ data},
     last |-> last + 1, err |-> "ok"]

\* INSERT INTO employees: rakami_tabel TEXT UNIQUE, id AUTOINCREMENT
add_employee(tbl, last, data) ==
    IF \E r \in tbl : r.rakami_tabel = data.rakami_tabel
    THEN [tbl |-> tbl, last |-> last, err |-> "IntegrityError"]
    ELSE [tbl |-> tbl \cup {[id |-> last + 1] @@ data}, last |-> last + 1, err |-> "ok"]

\* UPDATE employees SET ... WHERE id=?: a missing id updates nothing and is no error
update_employee(tbl, emp_id, data) ==
    IF /\ \E q \in tbl : q.id = emp_id
       /\ \E r \in tbl : r.id # emp_id /\ r.rakami_tabel = data.rakami_tabel
    THEN [tbl |-> tbl, err |-> "IntegrityError", rowcount |-> 0]
    ELSE [tbl |-> {IF r.id = emp_id THEN [id |-> r.id] @@ data ELSE r : r \in tbl},
          err |-> "ok", rowcount |-> Cardinality({r \in tbl : r.id = emp_id})]

\* DELETE FROM employees WHERE id=?
delete_employee(tbl, emp_id) == {r \in tbl : r.id # emp_id}

\* as a query without the id<>? term
station_exists_any_row(tbl, name, exclude_id) == \E r \in tbl : r.name = name

\* station_exists(name, exclude_id): exclude_id = 0 stands for None
station_exists(tbl, name, exclude_id) ==
    IF exclude_id = 0
    THEN \E r \in tbl : r.name = name
    ELSE \E r \in tbl : r.name = name /\ r.id # exclude_id

\* as a stations table whose name column is not UNIQUE would
add_station_no_unique(tbl, last, data) ==
    [tbl |-> tbl \cup {[id |-> last + 1] @@ data}, last |-> last + 1, err |-> "ok"]

\* as a stations table whose id is INTEGER PRIMARY KEY without AUTOINCREMENT would:
\* the new rowid is one more than the largest in the table
add_station_max_rowid(tbl, last, data) ==
    LET top == IF tbl = {} THEN 0 ELSE CHOOSE i \in {r.id : r \in tbl} :
                                             \A r \in tbl : r.id <= i
    IN  IF \E r \in tbl : r.name = data.name
        THEN [tbl |-> tbl, last |-> last, err |-> "IntegrityError"]
        ELSE [tbl |-> tbl \cup {[id |-> top + 1] @@ data}, last |-> top + 1, err |-> "ok"]

\* INSERT INTO stations: name TEXT UNIQUE, id AUTOINCREMENT
add_station(tbl, last, data) ==
    IF \E r \in tbl : r.name = data.name
    THEN [tbl |-> tbl, last |-> last, err |-> "IntegrityError"]
    ELSE [tbl |-> tbl \cup {[id |-> last + 1] @@ data}, last |-> last + 1, err |-> "ok"]

\* as an UPDATE that tested the new name against every row, the updated one included
update_station_self_conflict(tbl, station_id, data) ==
    IF /\ \E q \in tbl : q.id = station_id
       /\ \E r \in tbl : r.name = data.name
    THEN [tbl |-> tbl, err |-> "IntegrityError", rowcount |-> 0]
    ELSE [tbl |-> {IF r.id = station_id THEN [id |-> r.id] @@ data ELSE r : r \in tbl},
          err |-> "ok", rowcount |-> Cardinality({r \in tbl : r.id = station_id})]

\* UPDATE stations SET ... WHERE id=?: a missing id updates nothing and is no error
update_station(tbl, station_id, data) ==
    IF /\ \E q \in tbl : q.id = station_id
       /\ \E r \in tbl : r.id # station_id /\ r.name = data.name
    THEN [tbl |-> tbl, err |-> "IntegrityError", rowcount |-> 0]
    ELSE [tbl |-> {IF r.id = station_id THEN [id |-> r.id] @@ data ELSE r : r \in tbl},
          err |-> "ok", rowcount |-> Cardinality({r \in tbl : r.id = station_id})]

\* DELETE FROM stations WHERE id=?: station_maintenance is not touched
delete_station(tbl, station_id) == {r \in tbl : r.id # station_id}

\* datetime.now().strftime("%Y-%m-%d"): the calendar day of a clock value
Day(t) == t \div TicksPerDay

\* as a journal keeping one record per station, day and type would
add_maintenance_record_dedup(tbl, last, station_id, maintenance_type, clock) ==
    IF \E m \in tbl : /\ m.station_id = station_id
                       /\ m.maintenance_date = Day(clock)
                       /\ m.maintenance_type = maintenance_type
    THEN [tbl |-> tbl, last |-> last]
    ELSE [tbl |-> tbl \cup {[id |-> last + 1, station_id |-> station_id,
                             maintenance_date |-> Day(clock),
                             maintenance_type |-> maintenance_type,
                             parts_replaced |-> "", notes |-> "",
                             user_name |-> "Polzovatel", created_at |-> clock]},
          last |-> last + 1]

\* add_maintenance_record: today's date from the process clock, created_at by default
add_maintenance_record(tbl, last, station_id, maintenance_type, clock) ==
    [tbl |-> tbl \cup {[id |-> last + 1, station_id |-> station_id,
                        maintenance_date |-> Day(clock),
                        maintenance_type |-> maintenance_type,
                        parts_replaced |-> "",
                        notes |-> IF maintenance_type = "repair"
                                  THEN "Tip: Remont" ELSE "Tip: Obsluzhivanie",
                        user_name |-> "Polzovatel",
                        created_at |-> clock]},
     last |-> last + 1]

(***************************************************************************)
(* Queries.  An SQL value is NULL or an integer; a WHERE/ORDER BY query     *)
(* returns its rows as a sequence.                                         *)
(***************************************************************************)
NULL == {}
SqlInt(n) == {n}
NoDate == -1                              \* date_filter=None
Days == 0..Day(MaxNow)

\* the business key of a row: stations.name, employees.rakami_tabel
OrderKey(r) == IF "name" \in DOMAIN r THEN r.name ELSE r.rakami_tabel

\* ORDER BY <business key> ASC: each row at the place its number of smaller keys
\* gives it (rows of one key, which no table holds, in rowid order)
OrderByKey(rows) ==
    LET Placed(before) ==
            [i \in 1..Cardinality(rows) |-> CHOOSE r \in rows : before[r] = i - 1]
    IN  CHOOSE sorted \in
            {Placed(before) : before \in
                {[r \in rows |->
                    Cardinality({q \in rows :
                       \/ TextLess(OrderKey(q), OrderKey(r))
                       \/ OrderKey(q) = OrderKey(r) /\ q.id < r.id})]}} : TRUE

\* like = f"%{search.strip()}%"
LikePattern(search) == <<"%">> \o Strip(search) \o <<"%">>

\* fetch_stations(search, region)
fetch_stations(tbl, search, region) ==
    OrderByKey({r \in tbl :
        /\ (region # "" /\ region # ALL) => r.region = region
        /\ search # <<>> =>
              \E col \in {"name", "location", "contact", "notes"} :
                  LikeMatch(LikePattern(search), r[col])})

\* fetch_employees(search, region)
fetch_employees(tbl, search, region) ==
    OrderByKey({r \in tbl :
        /\ (region # "" /\ region # ALL) => r.makon = region
        /\ search # <<>> =>
              \E col \in {"rakami_tabel", "last_name", "first_name", "nasab", "phone"} :
                  LikeMatch(LikePattern(search), r[col])})

\* SUM(CASE WHEN maintenance_type = t THEN 1 ELSE 0 END): NULL over no rows
SumCase(rows, t) ==
    IF rows = {} THEN NULL
    ELSE SqlInt(Cardinality({m \in rows : m.maintenance_type = t}))

\* COUNT(DISTINCT station_id)
CountDistinctStations(rows) == SqlInt(Cardinality({m.station_id : m \in rows}))

\* get_maintenance_stats(date_filter): the one row of the aggregate, as fetched
get_maintenance_stats(mtbl, date_filter, clock) ==
    LET date_str == IF date_filter # NoDate THEN date_filter ELSE Day(clock)
        rows == {m \in mtbl : m.maintenance_date = date_str}
    IN  [date |-> date_str,
         total_maintained |-> CountDistinctStations(rows),
         repairs |-> SumCase(rows, "repair"),
         services |-> SumCase(rows, "service")]

\* FROM station_maintenance sm JOIN stations s ON sm.station_id = s.id
Join(mtbl, stbl) == {p \in mtbl \X stbl : p[1].station_id = p[2].id}

\* ORDER BY s.region: the BINARY order of the region values of this model
RegionCollation == <<"", "RRP", "VMKB">>

\* as a report grouping by the region the station had when the record was made
get_maintenance_stats_by_region_at_event(mtbl, stbl, date_filter, region_filter, clock) ==
    LET date_str == IF date_filter # NoDate THEN date_filter ELSE Day(clock)
        rows == {p \in Join(mtbl, stbl) :
                    /\ p[1].maintenance_date = date_str
                    /\ (region_filter # "" /\ region_filter # ALL)
                            => regionAt[p[1].id] = region_filter}
        Group(g) == {p[1] : p \in {q \in rows : regionAt[q[1].id] = g}}
        regions == SelectSeq(RegionCollation,
                             LAMBDA g : \E p \in rows : regionAt[p[1].id] = g)
    IN  [i \in 1..Len(regions) |->
            <<regions[i], CountDistinctStations(Group(regions[i])),
              SumCase(Group(regions[i]), "repair"),
              SumCase(Group(regions[i]), "service")>>]

\* get_maintenance_stats_by_region(date_filter, region_filter)
get_maintenance_stats_by_region(mtbl, stbl, date_filter, region_filter, clock) ==
    LET date_str == IF date_filter # NoDate THEN date_filter ELSE Day(clock)
        rows == {p \in Join(mtbl, stbl) :
                    /\ p[1].maintenance_date = date_str
                    /\ (region_filter # "" /\ region_filter # ALL)
                            => p[2].region = region_filter}
        Group(g) == {p[1] : p \in {q \in rows : q[2].region = g}}
        regions == SelectSeq(RegionCollation, LAMBDA g : \E p \in rows : p[2].region = g)
    IN  [i \in 1..Len(regions) |->
            <<regions[i], CountDistinctStations(Group(regions[i])),
              SumCase(Group(regions[i]), "repair"),
              SumCase(Group(regions[i]), "service")>>]

\* ORDER BY sm.maintenance_date DESC, sm.created_at DESC: a comes before b, or ties
DateCreatedDesc(a, b) ==
    \/ a.maintenance_date > b.maintenance_date
    \/ a.maintenance_date = b.maintenance_date /\ a.created_at >= b.created_at

\* the orders an ORDER BY may return a set of rows in: rows that tie come in any order
Orderings(rows) ==
    {f \in [1..Cardinality(rows) -> rows] :
        /\ \A i, j \in DOMAIN f : i # j => f[i] # f[j]
        /\ \A i, j \in DOMAIN f : i < j => DateCreatedDesc(f[i], f[j])}

\* get_maintenance_records(station_id, date_filter, region_filter): station_id = 0
\* stands for None; every result the query may return
get_maintenance_records(mtbl, stbl, station_id, date_filter, region_filter) ==
    LET rows == {p \in Join(mtbl, stbl) :
                    /\ station_id # 0 => p[1].station_id = station_id
                    /\ date_filter # NoDate => p[1].maintenance_date = date_filter
                    /\ (region_filter # "" /\ region_filter # ALL)
                            => p[2].region = region_filter}
        out == {p[1] @@ [station_name |-> p[2].name, region |-> p[2].region] : p \in rows}
    IN  Orderings(out)

(***************************************************************************)
(* Floating point.  A binary64 value is mant * 2^(-scale) with mant a      *)
(* sequence of MantBits bits, most significant first; the report computes  *)
(* the availability in it.                                                 *)
(***************************************************************************)
MantBits == 53
ChunkBits == 12                       \* the arithmetic goes ChunkBits bits at a time

Zeros(n) == [i \in 1..n |-> 0]

\* the integer a short bit sequence stands for
RECURSIVE BitsValue(_)
BitsValue(x) ==
    IF x = <<>> THEN 0 ELSE 2 * BitsValue(SubSeq(x, 1, Len(x) - 1)) + x[Len(x)]

\* the n low bits of v
IntToBits(v, n) == [i \in 1..n |-> (v \div (2 ^ (n - i))) % 2]

\* leading zero bits removed
BitsTrim(x) ==
    IF \A i \in DOMAIN x : x[i] = 0 THEN <<>>
    ELSE SubSeq(x, CHOOSE i \in DOMAIN x : x[i] = 1 /\ \A j \in 1..(i - 1) : x[j] = 0,
                Len(x))

\* x + y + carry, the sequences of one length, a multiple of ChunkBits
RECURSIVE BitsAddCarry(_, _, _)
BitsAddCarry(x, y, carry) ==
    IF x = <<>> THEN <<>>
    ELSE LET n == Len(x)
             sum == BitsValue(SubSeq(x, n - ChunkBits + 1, n))
                      + BitsValue(SubSeq(y, n - ChunkBits + 1, n)) + carry
         IN  BitsAddCarry(SubSeq(x, 1, n - ChunkBits), SubSeq(y, 1, n - ChunkBits),
                          sum \div (2 ^ ChunkBits))
                \o IntToBits(sum % (2 ^ ChunkBits), ChunkBits)

BitsAdd(x, y) ==
    LET longest == IF Len(x) > Len(y) THEN Len(x) ELSE Len(y)
        n == ((longest \div ChunkBits) + 1) * ChunkBits
    IN  BitsTrim(BitsAddCarry(Zeros(n - Len(x)) \o x, Zeros(n - Len(y)) \o y, 0))

\* x * 2^k
BitsShift(x, k) == x \o Zeros(k)

\* round to nearest, ties to even: the first n bits of x (x without leading zeros,
\* at least n bits), and the number of low bits given up
BitsRound(x, n) ==
    LET kept == SubSeq(x, 1, n)
        rest == SubSeq(x, n + 1, Len(x))
        up == /\ rest # <<>> /\ Head(rest) = 1
              /\ (kept[n] = 1 \/ \E i \in 2..Len(rest) : rest[i] = 1)
        next == BitsAdd(kept, <<1>>)
    IN  IF ~ up THEN [mant |-> kept, dropped |-> Len(rest)]
        ELSE IF Len(next) > n THEN [mant |-> SubSeq(next, 1, n), dropped |-> Len(rest) + 1]
        ELSE [mant |-> next, dropped |-> Len(rest)]

\* the binary digits of r / d after the point, the first n of them (0 <= r < d)
RECURSIVE QuotientBits(_, _, _)
QuotientBits(r, d, n) ==
    IF n = 0 THEN <<>>
    ELSE LET k == IF n < ChunkBits THEN n ELSE ChunkBits
         IN  IntToBits((r * 2 ^ k) \div d, k) \o QuotientBits((r * 2 ^ k) % d, d, n - k)

\* what is left of r / d after its first n digits, as a numerator over d
RECURSIVE RemainderAfter(_, _, _)
RemainderAfter(r, d, n) ==
    IF n = 0 THEN r
    ELSE LET k == IF n < ChunkBits THEN n ELSE ChunkBits
         IN  RemainderAfter((r * 2 ^ k) % d, d, n - k)

\* the zero digits r / d starts with after the point (0 < r < d)
RECURSIVE LeadingZeros(_, _)
LeadingZeros(r, d) == IF 2 * r >= d THEN 0 ELSE 1 + LeadingZeros(2 * r, d)

\* n / d in binary64, 0 < n < d: the quotient to one digit more than the mantissa,
\* then a sticky digit for what is left, rounded
FloatDivide(n, d) ==
    LET z == LeadingZeros(n, d)
        digits == QuotientBits(n, d, z + MantBits + 1)
        sticky == IF RemainderAfter(n, d, z + MantBits + 1) = 0 THEN 0 ELSE 1
        q == BitsRound(SubSeq(digits, z + 1, Len(digits)) \o <<sticky>>, MantBits)
    IN  [mant |-> q.mant, scale |-> z + MantBits + 2 - q.dropped]

\* x * 100 in binary64: 100 = 64 + 32 + 4
FloatTimes100(x) ==
    LET p == BitsAdd(BitsAdd(BitsShift(x.mant, 6), BitsShift(x.mant, 5)),
                     BitsShift(x.mant, 2))
        q == BitsRound(p, MantBits)
    IN  [mant |-> q.mant, scale |-> x.scale - q.dropped]

\* round(x, 1) in tenths: the integer nearest to the exact 10 * x, ties to even
RoundToTenths(x) ==
    LET n == BitsAdd(BitsShift(x.mant, 3), BitsShift(x.mant, 1))
        all == Zeros(x.scale - Len(n)) \o n
        whole == BitsValue(SubSeq(all, 1, Len(all) - x.scale))
        frac == SubSeq(all, Len(all) - x.scale + 1, Len(all))
        up == /\ frac # <<>> /\ Head(frac) = 1
              /\ (whole % 2 = 1 \/ \E i \in 2..Len(frac) : frac[i] = 1)
    IN  IF up THEN whole + 1 ELSE whole

(***************************************************************************)
(* Reports page: the histograms and the general figures over all stations. *)
(***************************************************************************)
Unknown == "Neizvestno"
ACTIVE == "Aktivna"

\* region_stats / type_stats / status_stats: value or "Неизвестно" -> count
Histogram(all_stations, field) ==
    LET Label(r) == IF r[field] = "" THEN Unknown ELSE r[field]
    IN  [b \in {Label(r) : r \in all_stations} |->
            Cardinality({r \in all_stations : Label(r) = b})]

\* as a report that cuts the quotient off after the first decimal
AvailabilityTruncated(active_stations, total_stations) ==
    IF total_stations > 0 THEN (1000 * active_stations) \div total_stations ELSE 0

\* round(active_stations / total_stations * 100, 1) if total_stations > 0 else 0,
\* in tenths of a percent
Availability(active_stations, total_stations) ==
    IF total_stations > 0
    THEN IF active_stations = 0 THEN 0
         ELSE IF active_stations = total_stations THEN 1000
         ELSE RoundToTenths(FloatTimes100(FloatDivide(active_stations, total_stations)))
    ELSE 0

(***************************************************************************)
(* Sessions.  A script run is a sequence of repository calls; between two  *)
(* of them the other session may run.  After a run, op, out, checked,      *)
(* raced and rowcount keep what the run was and how it ended, until the    *)
(* session's next run.                                                     *)
(*   checked:  the run called the exists pre-check before its write        *)
(*   raced:    both sessions had passed the pre-check of the same          *)
(*             operation for the same key before either wrote              *)
(*   rowcount: the rows the run's UPDATE matched (-1: no UPDATE ran)       *)
(***************************************************************************)
Run(pc, op, id, key, snap, types, checked, raced) ==
    [pc |-> pc, op |-> op, id |-> id, key |-> key, snap |-> snap, types |-> types,
     out |-> "none", checked |-> checked, raced |-> raced, rowcount |-> -1]

Ended(run, out) ==
    [run EXCEPT !.pc = "idle", !.id = 0, !.key = <<>>, !.snap = {}, !.types = <<>>,
                !.out = out]

Fresh == Ended(Run("idle", "none", 0, <<>>, {}, <<>>, FALSE, FALSE), "none")

Other(s) == CHOOSE o \in Sessions : o # s

\* the other session stands between its pre-check and its write of the same key
Racing(s, op, key) ==
    LET o == sess[Other(s)] IN o.pc = "write" /\ o.op = op /\ o.key = key /\ o.checked

\* session s passes the pre-check of op for key, and goes on to its write
Checked(s, op, id, key, snap) ==
    [t \in Sessions |->
        IF t = s THEN Run("write", op, id, key, snap, <<>>, TRUE, Racing(s, op, key))
        ELSE IF Racing(s, op, key) THEN [sess[t] EXCEPT !.raced = TRUE]
        ELSE sess[t]]

\* a variant without the blank-key test
Submit_unvalidated(s, op, id, key, snap, exists) ==
    LET run == Run("idle", op, id, key, snap, <<>>, FALSE, FALSE) IN
    IF exists THEN [sess EXCEPT ![s] = Ended([run EXCEPT !.checked = TRUE], "exists")]
    ELSE Checked(s, op, id, key, snap)

\* a submit handler up to its write: blank key, then the exists pre-check
Submit(s, op, id, key, snap, exists) ==
    LET run == Run("idle", op, id, key, snap, <<>>, FALSE, FALSE) IN
    IF key = <<>> THEN [sess EXCEPT ![s] = Ended(run, "ValidationError")]
    ELSE IF exists THEN [sess EXCEPT ![s] = Ended([run EXCEPT !.checked = TRUE], "exists")]
    ELSE Checked(s, op, id, key, snap)

\* no import script is running; no upload is under way
NoJob == [kind |-> "none", pc |-> "idle"]
NoUpload ==
    [pc |-> "none", dir |-> <<>>, hint |-> <<>>, data |-> <<>>, target |-> <<>>, i |-> 0,
     seen |-> {}, photo |-> <<>>, pdf |-> <<>>]

\* st.session_state of a session that has logged in and is on the main menu
ABSENT == "absent"
HOME == "Glavnaya"
LoggedIn == [authed |-> "True", page |-> HOME]

NoPage == [table |-> "none", search |-> <<>>, region |-> ALL, rows |-> <<>>]

Init ==
    /\ stations = {}
    /\ employees = {}
    /\ maintenance = {}
    /\ seq = [stations |-> 0, employees |-> 0, station_maintenance |-> 0]
    /\ now = 0
    /\ role \in [Sessions -> {"admin", "viewer"}]
    /\ sess = [s \in Sessions |-> Fresh]
    /\ page = NoPage
    /\ regionAt = <<>>
    /\ job = NoJob
    /\ disk = <<>>
    /\ upload = [s \in Sessions |-> NoUpload]
    /\ conns = {}
    /\ session_state = [s \in Sessions |-> LoggedIn]

\* the process clock advances
Tick ==
    /\ now < MaxNow
    /\ now' = now + 1
    /\ UNCHANGED <<stations, employees, maintenance, seq, role, sess, reads, regionAt>>

(***************************************************************************)
(* Stations page.                                                          *)
(***************************************************************************)
\* main, add station submit: blank name, then the station_exists pre-check
AddStationCheck(s) ==
    /\ role[s] = "admin"
    /\ sess[s].pc = "idle"
    /\ \E raw \in RawKeys :
         LET station_name == Strip(raw) IN
         sess' = Submit(s, "add_station", 0, station_name, {},
                        station_exists(stations, station_name, 0))
    /\ UNCHANGED <<stations, employees, maintenance, seq, now, role, reads, regionAt>>

\* main, add station submit: the add_station call
AddStationInsert(s, regions, notesValues) ==
    /\ sess[s].pc = "write" /\ sess[s].op = "add_station"
    /\ \E region \in regions, notes \in notesValues :
         LET res == add_station(stations, seq.stations,
                                station_form(sess[s].key, region, notes, "", ""))
         IN  /\ res.last <= MaxIds
             /\ stations' = res.tbl
             /\ seq' = [seq EXCEPT !.stations = res.last]
             /\ sess' = [sess EXCEPT ![s] = Ended(@, res.err)]
    /\ UNCHANGED <<employees, maintenance, now, role, reads, regionAt>>

\* main: rows = fetch_stations(...), and the row whose widget was used; snap keeps
\* the columns of the row that the handler goes on to use
FetchStation(s, op, used) ==
    /\ sess[s].pc = "idle"
    /\ \E r \in stations :
         sess' = [sess EXCEPT ![s] =
                     Run("fetched", op, r.id, <<>>, {Columns(r, used)}, <<>>, FALSE, FALSE)]
    /\ UNCHANGED <<stations, employees, maintenance, seq, now, role, reads, regionAt>>

\* main, edit station submit: the admin's run starts
EditStationFetch(s) == role[s] = "admin" /\ FetchStation(s, "edit_station", Files)

\* main, edit station submit: blank name, then station_exists(new_name, exclude_id)
EditStationCheck(s) ==
    /\ sess[s].pc = "fetched" /\ sess[s].op = "edit_station"
    /\ \E raw \in RawKeys :
         LET new_name == Strip(raw) IN
         sess' = Submit(s, "edit_station", sess[s].id, new_name, sess[s].snap,
                        station_exists(stations, new_name, sess[s].id))
    /\ UNCHANGED <<stations, employees, maintenance, seq, now, role, reads, regionAt>>

\* main, edit station submit: the update_station call
EditStationUpdate(s, regions, notesValues) ==
    /\ sess[s].pc = "write" /\ sess[s].op = "edit_station"
    /\ \E region \in regions, notes \in notesValues, r \in sess[s].snap :
         LET res == update_station(stations, sess[s].id,
                        station_form(sess[s].key, region, notes, r.pdf_file, r.photo_file))
         IN  /\ stations' = res.tbl
             /\ sess' = [sess EXCEPT ![s] = Ended([@ EXCEPT !.rowcount = res.rowcount],
                                                  res.err)]
    /\ UNCHANGED <<employees, maintenance, seq, now, role, reads, regionAt>>

\* main, delete station: the admin's run starts
DeleteStationFetch(s) == role[s] = "admin" /\ FetchStation(s, "delete_station", {})

\* main, delete station: the delete_station call
DeleteStation(s) ==
    /\ sess[s].pc = "fetched" /\ sess[s].op = "delete_station"
    /\ stations' = delete_station(stations, sess[s].id)
    /\ sess' = [sess EXCEPT ![s] = Ended(@, "ok")]
    /\ UNCHANGED <<employees, maintenance, seq, now, role, reads, regionAt>>

\* main, viewer save notes: the viewer's run starts
SaveNotesFetch(s) == role[s] # "admin" /\ FetchStation(s, "save_notes", StationColumns)

\* main, viewer save notes: update_station with the fetched row and the typed notes
SaveNotes(s, notesValues) ==
    /\ sess[s].pc = "fetched" /\ sess[s].op = "save_notes"
    /\ \E new_notes \in notesValues, r \in sess[s].snap :
         LET res == update_station(stations, sess[s].id,
                        [RowData(r) EXCEPT !.notes = new_notes])
         IN  /\ stations' = res.tbl
             /\ sess' = [sess EXCEPT ![s] = Ended([@ EXCEPT !.rowcount = res.rowcount],
                                                  res.err)]
    /\ UNCHANGED <<employees, maintenance, seq, now, role, reads, regionAt>>

\* main, save_maintenance: the check boxes of the viewer's form
MaintenanceChoices == {<<>>, <<"repair">>, <<"service">>, <<"repair", "service">>}

\* main, save_maintenance: the viewer's run starts; no box ticked is a warning
SaveMaintenanceFetch(s) ==
    /\ role[s] # "admin"
    /\ sess[s].pc = "idle"
    /\ \E r \in stations, maintenance_types \in MaintenanceChoices :
         sess' = [sess EXCEPT ![s] =
            IF maintenance_types = <<>>
            THEN Ended(Run("idle", "save_maintenance", 0, <<>>, {}, <<>>, FALSE, FALSE),
                       "warning")
            ELSE Run("fetched", "save_maintenance", r.id, <<>>, {}, maintenance_types,
                     FALSE, FALSE)]
    /\ UNCHANGED <<stations, employees, maintenance, seq, now, role, reads, regionAt>>

\* the region the station with this id has now ("gone": no such row)
RegionNow(station_id) ==
    IF \E r \in stations : r.id = station_id
    THEN (CHOOSE r \in stations : r.id = station_id).region ELSE "gone"

\* main, save_maintenance: one add_maintenance_record call of the loop
SaveMaintenanceInsert(s) ==
    /\ sess[s].pc = "fetched" /\ sess[s].op = "save_maintenance"
    /\ seq.station_maintenance < MaxMaint
    /\ LET res == add_maintenance_record(maintenance, seq.station_maintenance,
                                         sess[s].id, Head(sess[s].types), now)
           left == Tail(sess[s].types)
       IN  /\ maintenance' = res.tbl
           /\ seq' = [seq EXCEPT !.station_maintenance = res.last]
           /\ regionAt' = Append(regionAt, RegionNow(sess[s].id))
           /\ sess' = [sess EXCEPT ![s] =
                          IF left = <<>> THEN Ended(@, "ok") ELSE [@ EXCEPT !.types = left]]
    /\ UNCHANGED <<stations, employees, now, role, reads>>

(***************************************************************************)
(* Employees page.                                                         *)
(***************************************************************************)
\* main, add employee submit: blank tabel number, then the tabel_exists pre-check
AddEmployeeCheck(s) ==
    /\ role[s] = "admin"
    /\ sess[s].pc = "idle"
    /\ \E raw \in RawKeys :
         LET rakami_tabel == Strip(raw) IN
         sess' = Submit(s, "add_employee", 0, rakami_tabel, {},
                        tabel_exists(employees, rakami_tabel, 0))
    /\ UNCHANGED <<stations, employees, maintenance, seq, now, role, reads, regionAt>>

\* main, add employee submit: the uploads' paths, then the add_employee call
AddEmployeeInsert(s, uploads) ==
    /\ sess[s].pc = "write" /\ sess[s].op = "add_employee"
    /\ \E photo_path \in uploads :
         LET res == add_employee(employees, seq.employees,
                                 employee_form(sess[s].key, "", photo_path))
         IN  /\ res.last <= MaxIds
             /\ employees' = res.tbl
             /\ seq' = [seq EXCEPT !.employees = res.last]
             /\ sess' = [sess EXCEPT ![s] = Ended(@, res.err)]
    /\ UNCHANGED <<stations, maintenance, now, role, reads, regionAt>>

\* main: rows = fetch_employees(...), and the row whose widget was used; snap keeps
\* the columns of the row that the handler goes on to use
FetchEmployee(s, op, used) ==
    /\ role[s] = "admin"
    /\ sess[s].pc = "idle"
    /\ \E r \in employees :
         sess' = [sess EXCEPT ![s] =
                     Run("fetched", op, r.id, <<>>, {Columns(r, used)}, <<>>, FALSE, FALSE)]
    /\ UNCHANGED <<stations, employees, maintenance, seq, now, role, reads, regionAt>>

\* main, edit employee submit: the admin's run starts
EditEmployeeFetch(s) == FetchEmployee(s, "edit_employee", Files)

\* main, edit employee submit: blank tabel number, then tabel_exists(new_tabel, exclude_id)
EditEmployeeCheck(s) ==
    /\ sess[s].pc = "fetched" /\ sess[s].op = "edit_employee"
    /\ \E raw \in RawKeys :
         LET new_tabel == Strip(raw) IN
         sess' = Submit(s, "edit_employee", sess[s].id, new_tabel, sess[s].snap,
                        tabel_exists(employees, new_tabel, sess[s].id))
    /\ UNCHANGED <<stations, employees, maintenance, seq, now, role, reads, regionAt>>

\* main, edit employee submit: the update_employee call
EditEmployeeUpdate(s) ==
    /\ sess[s].pc = "write" /\ sess[s].op = "edit_employee"
    /\ \E r \in sess[s].snap :
         LET res == update_employee(employees, sess[s].id,
                        employee_form(sess[s].key, r.pdf_file, r.photo_file))
         IN  /\ employees' = res.tbl
             /\ sess' = [sess EXCEPT ![s] = Ended([@ EXCEPT !.rowcount = res.rowcount],
                                                  res.err)]
    /\ UNCHANGED <<stations, maintenance, seq, now, role, reads, regionAt>>

\* main, delete employee: the admin's run starts
DeleteEmployeeFetch(s) == FetchEmployee(s, "delete_employee", {})

\* main, delete employee: the delete_employee call
DeleteEmployee(s) ==
    /\ sess[s].pc = "fetched" /\ sess[s].op = "delete_employee"
    /\ employees' = delete_employee(employees, sess[s].id)
    /\ sess' = [sess EXCEPT ![s] = Ended(@, "ok")]
    /\ UNCHANGED <<stations, maintenance, seq, now, role, reads, regionAt>>

\* main, replace photo: the admin's run starts
ReplacePhotoFetch(s) == FetchEmployee(s, "replace_photo", EmployeeColumns)

\* main, replace photo: update_employee with the fetched row and the new path
ReplacePhoto(s, uploads) ==
    /\ sess[s].pc = "fetched" /\ sess[s].op = "replace_photo"
    /\ \E new_path \in uploads \ {""}, r \in sess[s].snap :
         LET res == update_employee(employees, sess[s].id,
                        [RowData(r) EXCEPT !.photo_file = new_path])
         IN  /\ employees' = res.tbl
             /\ sess' = [sess EXCEPT ![s] = Ended([@ EXCEPT !.rowcount = res.rowcount],
                                                  res.err)]
    /\ UNCHANGED <<stations, maintenance, seq, now, role, reads, regionAt>>

(***************************************************************************)
(* Uploads.  A path and a file name are texts; a file keeps its bytes and, *)
(* as history, the filename hint it was written from.                      *)
(***************************************************************************)
MaxFiles == 2

PHOTOS_DIR == <<"p", "/">>
PDFS_DIR == <<"d", "/">>
UploadDirs == {PHOTOS_DIR}            \* the directories that the modelled uploads go to
Hints == {<<"f", ".", "j">>, <<"f", "_", "1", ".", "j">>, <<" ", ".">>}
Contents == {<<"x">>, <<"y">>}

\* the characters that the pattern [^\w\-\.] matches
Unsafe == {" ", "/"}

\* os.path.splitext: the extension starts at the last dot, unless only dots precede it
SplitExt(p) ==
    LET dots == {k \in 1..Len(p) : p[k] = "." /\ \E j \in 1..(k - 1) : p[j] # "."} IN
    IF dots = {} THEN [root |-> p, ext |-> <<>>]
    ELSE LET k == CHOOSE d \in dots : \A e \in dots : e <= d
         IN  [root |-> SubSeq(p, 1, k - 1), ext |-> SubSeq(p, k, Len(p))]

\* re.sub(r"[^\w\-\.]+", "_", root): each run of unsafe characters becomes one underscore
RECURSIVE Substitute(_)
Substitute(s) ==
    IF s = <<>> THEN <<>>
    ELSE IF Head(s) \notin Unsafe THEN <<Head(s)>> \o Substitute(Tail(s))
    ELSE IF Tail(s) # <<>> /\ Head(Tail(s)) \in Unsafe THEN Substitute(Tail(s))
    ELSE <<"_">> \o Substitute(Tail(s))

\* str.strip(chars)
RECURSIVE StripChars(_, _)
StripChars(s, chars) ==
    IF s # <<>> /\ Head(s) \in chars THEN StripChars(Tail(s), chars)
    ELSE IF s # <<>> /\ s[Len(s)] \in chars THEN StripChars(SubSeq(s, 1, Len(s) - 1), chars)
    ELSE s

\* the root of the stored name: sanitised, or "file"
SafeRoot(root) ==
    LET safe == StripChars(Substitute(root), {".", "_"}) IN
    IF safe = <<>> THEN <<"f", "i", "l", "e">> ELSE safe

\* str(i)
RECURSIVE Str(_)
Str(i) ==
    LET digit == <<"0", "1", "2", "3", "4", "5", "6", "7", "8", "9">>[(i % 10) + 1] IN
    IF i < 10 THEN <<digit>> ELSE Str(i \div 10) \o <<digit>>

\* the i-th target that safe_write_file tries: root + ext, then root_i + ext
Target(target_dir, root, ext, i) ==
    target_dir \o root \o (IF i = 0 THEN <<>> ELSE <<"_">> \o Str(i)) \o ext

\* the while loop: the first target that does not exist
RECURSIVE Probe(_, _, _, _, _)
Probe(files, target_dir, root, ext, i) ==
    IF Target(target_dir, root, ext, i) \in files
    THEN Probe(files, target_dir, root, ext, i + 1) ELSE i

\* a variant that never probes: the upload goes to root + ext
safe_write_file_in_place(files, target_dir, filename_hint) ==
    LET split == SplitExt(filename_hint) IN
    [target |-> Target(target_dir, SafeRoot(split.root), split.ext, 0), i |-> 0]

\* safe_write_file up to its open(): the target, and the suffix it carries (0: none)
safe_write_file(files, target_dir, filename_hint) ==
    LET split == SplitExt(filename_hint)
        root == SafeRoot(split.root)
        i == Probe(files, target_dir, root, split.ext, 0)
    IN  [target |-> Target(target_dir, root, split.ext, i), i |-> i]

\* open(target, "wb") and f.write(data)
Stored(files, target, file) ==
    [p \in (DOMAIN files) \cup {target} |-> IF p = target THEN file ELSE files[p]]

\* the steps of one script run that reach the upload
Uploading(s) ==
    \/ sess[s].pc = "write" /\ sess[s].op = "add_employee"
    \/ sess[s].pc = "fetched" /\ sess[s].op = "replace_photo"

\* safe_write_file, to the end of its while loop; the add form writes the photo
\* before the PDF
UploadProbe(s) ==
    /\ Uploading(s)
    /\ upload[s].pc = "none"
    /\ Cardinality(DOMAIN disk) < MaxFiles
    /\ \E target_dir \in UploadDirs, filename_hint \in Hints, data \in Contents :
         /\ target_dir = PHOTOS_DIR => upload[s].photo = <<>> /\ upload[s].pdf = <<>>
         /\ target_dir = PDFS_DIR => upload[s].pdf = <<>> /\ sess[s].op = "add_employee"
         /\ \E res \in {safe_write_file(DOMAIN disk, target_dir, filename_hint)} :
              upload' = [upload EXCEPT ![s] =
                            [@ EXCEPT !.pc = "chosen", !.dir = target_dir,
                                      !.hint = filename_hint, !.data = data,
                                      !.target = res.target, !.i = res.i,
                                      !.seen = DOMAIN disk]]
    /\ UNCHANGED <<stations, employees, maintenance, seq, now, role, sess, page, regionAt, others,
                   job, disk>>

\* safe_write_file, open and write: the file is stored and its path returned
UploadWrite(s) ==
    /\ upload[s].pc = "chosen"
    /\ disk' = Stored(disk, upload[s].target,
                      [data |-> upload[s].data, hint |-> upload[s].hint])
    /\ upload' = [upload EXCEPT ![s] =
                    IF @.dir = PHOTOS_DIR
                    THEN [@ EXCEPT !.pc = "none", !.photo = upload[s].target]
                    ELSE [@ EXCEPT !.pc = "none", !.pdf = upload[s].target]]
    /\ UNCHANGED <<stations, employees, maintenance, seq, now, role, sess, page, regionAt, others,
                   job>>

\* a variant that catches the error and stores the row without the attachment
write_failed_row_kept(tbl, run) ==
    IF run.op = "add_employee"
    THEN tbl \cup {employee_form(run.key, <<>>, <<>>) @@ [id |-> MaxIds + 1]}
    ELSE {[r EXCEPT !.photo_file = IF r.id = run.id THEN <<>> ELSE @] : r \in tbl}

\* what the handler leaves in the table when safe_write_file raises: the exception
\* is not caught, the script run ends before its add_employee or update_employee
write_failed(tbl, run) == tbl

\* safe_write_file, open or write raising OSError: nothing is stored, or an
\* empty file is left at the target
UploadError(s) ==
    /\ upload[s].pc = "chosen"
    /\ \/ disk' = disk
       \/ disk' = Stored(disk, upload[s].target, [data |-> <<>>, hint |-> upload[s].hint])
    /\ employees' = write_failed(employees, sess[s])
    /\ sess' = [sess EXCEPT ![s] = Ended(@, "OSError")]
    /\ upload' = [upload EXCEPT ![s] = NoUpload]
    /\ UNCHANGED <<stations, maintenance, seq, now, role, page, regionAt, others, job>>

\* main, add employee submit: add_employee with the paths safe_write_file returned
AddEmployeeStore(s) ==
    /\ sess[s].pc = "write" /\ sess[s].op = "add_employee"
    /\ upload[s].pc = "none"
    /\ LET res == add_employee(employees, seq.employees,
                      employee_form(sess[s].key, upload[s].pdf, upload[s].photo))
       IN  /\ res.last <= MaxIds
           /\ employees' = res.tbl
           /\ seq' = [seq EXCEPT !.employees = res.last]
           /\ sess' = [sess EXCEPT ![s] = Ended(@, res.err)]
    /\ upload' = [upload EXCEPT ![s] = NoUpload]
    /\ UNCHANGED <<stations, maintenance, now, role, page, regionAt, others, job, disk>>

\* main, replace photo: update_employee with the fetched row and the new path
ReplacePhotoStore(s) ==
    /\ sess[s].pc = "fetched" /\ sess[s].op = "replace_photo"
    /\ upload[s].pc = "none" /\ upload[s].photo # <<>>
    /\ \E r \in sess[s].snap :
         LET res == update_employee(employees, sess[s].id,
                        [RowData(r) EXCEPT !.photo_file = upload[s].photo])
         IN  /\ employees' = res.tbl
             /\ sess' = [sess EXCEPT ![s] = Ended([@ EXCEPT !.rowcount = res.rowcount],
                                                  res.err)]
    /\ upload' = [upload EXCEPT ![s] = NoUpload]
    /\ UNCHANGED <<stations, maintenance, seq, now, role, page, regionAt, others, job, disk>>

(***************************************************************************)
(* Bulk importers.  A script run reads its input row by row; per row it    *)
(* parses the cells, tests the name, calls station_exists and then         *)
(* add_station.  The type and region cells are enumerated values: a word,  *)
(* a blank text, a cell the row does not have, or a column the file does   *)
(* not have.                                                               *)
(***************************************************************************)
MaxRows == 2

NoColumn == "<no column>"      \* the header has no such column / the line no such part
NoCell == "<no cell>"          \* an empty Excel cell (NaN) / a row shorter than the header
Blank == {"", " "}
ImportNames == {<<>>, <<"a", " ">>, <<"b">>, <<"n", "a", "n">>}
ImportLocations == {<<>>, <<"A">>}
TypeCells == {NoColumn, NoCell, "", "Retranslyator"}
RegionCells == {NoColumn, NoCell, " ", "VMKB"}
ImportRows ==
    [name : ImportNames, location : ImportLocations, type : TypeCells, region : RegionCells]

DEFAULT_REGION == "RRP"
DEFAULT_TYPE == "Bazovaya"
NaN == <<"n", "a", "n">>

\* str.strip() of an enumerated cell
StripCell(v) == IF v \in Blank THEN "" ELSE v

\* the region_mapping of the CSV importer's command line: location key -> region
region_mapping == {[location_key |-> <<"a">>, mapped_region |-> "VMKB"]}

\* location_key.lower() in location.lower()
LowerIn(location_key, location) ==
    \E i \in 0..(Len(location) - Len(location_key)) :
        \A k \in 1..Len(location_key) : Fold(location_key[k]) = Fold(location[i + k])

\* what a row comes to before station_exists: an error, a skip, or the tuple to add
Parsed(outcome, name, location, type, region) ==
    [outcome |-> outcome,
     data |-> [station_form(name, region, <<>>, "", "")
                  EXCEPT !.location = location, !.type = type]]

\* str(row.get(column, '')).strip() of an enumerated cell
ExcelCell(v) == IF v = NoColumn THEN "" ELSE IF v = NoCell THEN "nan" ELSE StripCell(v)

\* import_from_excel, one row up to station_exists
excel_row(row) ==
    LET station_name == Strip(row.name)
        region == ExcelCell(row.region)
        station_type == ExcelCell(row.type)
        location == Strip(row.location)
    IN  IF station_name = <<>> \/ station_name = NaN
        THEN Parsed("skipped", station_name, location, station_type, region)
        ELSE Parsed("parsed", station_name,
                    IF location = NaN THEN <<>> ELSE location,
                    IF station_type = "" \/ station_type = "nan"
                        THEN DEFAULT_TYPE ELSE station_type,
                    IF region = "" \/ region = "nan" THEN DEFAULT_REGION ELSE region)

\* import_stations_from_csv, one row up to station_exists
csv_row(row, mapping) ==
    LET name == Strip(row.name)
        location == Strip(row.location)
        station_type == IF row.type = NoColumn THEN DEFAULT_TYPE ELSE StripCell(row.type)
        region == IF row.region = NoColumn THEN "" ELSE StripCell(row.region)
        mapped == {m \in mapping : LowerIn(m.location_key, location)}
        region2 == IF region = "" /\ mapped # {}
                   THEN (CHOOSE m \in mapped : TRUE).mapped_region ELSE region
        region3 == IF region2 = "" THEN DEFAULT_REGION ELSE region2
    IN  IF row.type = NoCell \/ row.region = NoCell
        THEN Parsed("AttributeError", name, location, "", "")
        ELSE IF name = <<>> THEN Parsed("skipped", name, location, station_type, region3)
        ELSE Parsed("parsed", name, location, station_type, region3)

\* the lines that import_stations_from_text can split: a part is there or not,
\* and the region part comes after the type part
TextRows == {row \in ImportRows :
                /\ row.type # NoCell /\ row.region # NoCell
                /\ row.type = NoColumn => row.region = NoColumn /\ row.location = <<>>}

\* import_stations_from_text, one line up to station_exists
text_row(row, default_region) ==
    LET name == Strip(row.name)
        location == Strip(row.location)
        station_type == IF row.type = NoColumn THEN DEFAULT_TYPE ELSE StripCell(row.type)
        region == IF row.region = NoColumn THEN default_region ELSE StripCell(row.region)
    IN  IF name = <<>> THEN Parsed("ignored", name, location, station_type, region)
        ELSE Parsed("parsed", name, location, station_type, region)

Importers == {"excel", "csv", "text"}

RowsOf(kind) == IF kind = "text" THEN TextRows ELSE ImportRows

ParsedBy(kind, row) ==
    IF kind = "excel" THEN excel_row(row)
    ELSE IF kind = "csv" THEN csv_row(row, region_mapping)
    ELSE text_row(row, DEFAULT_REGION)

\* a script starts: init_db(), the input opened; of the counters, which are only
\* printed, the model keeps skipped
ImportStart ==
    /\ job.kind = "none"
    /\ \E kind \in Importers :
         job' = [kind |-> kind, pc |-> "row", read |-> 0, skipped |-> 0, out |-> "none",
                 name |-> <<>>, row |-> {}]
    /\ UNCHANGED <<stations, employees, maintenance, seq, now, role, sess, page, regionAt, others,
                   disk, upload>>

\* the loop body up to station_exists: the row is left out, ends the script, or
\* goes on to add_station; job.name is the name read, job.row the row to add
ImportRow ==
    /\ job.pc = "row"
    /\ job.read < MaxRows
    /\ \E row \in RowsOf(job.kind) :
         \E parsed \in {ParsedBy(job.kind, row)} :
            LET next == [job EXCEPT !.read = @ + 1, !.name = parsed.data.name] IN
            job' = IF parsed.outcome = "AttributeError"
                       THEN [next EXCEPT !.pc = "ended", !.out = "AttributeError"]
                   ELSE IF parsed.outcome = "ignored" THEN [next EXCEPT !.out = "ignored"]
                   ELSE IF parsed.outcome = "skipped"
                       THEN [next EXCEPT !.skipped = @ + 1, !.out = "skipped"]
                   ELSE IF station_exists(stations, parsed.data.name, 0)
                       THEN [next EXCEPT !.skipped = @ + 1, !.out = "exists"]
                   ELSE [next EXCEPT !.pc = "checked", !.out = "none", !.row = {row}]
    /\ UNCHANGED <<stations, employees, maintenance, seq, now, role, sess, page, regionAt, others,
                   disk, upload>>

\* the add_station call of the loop body: only import_from_excel catches its error
ImportInsert ==
    /\ job.pc = "checked"
    /\ \E row \in job.row :
         LET res == add_station(stations, seq.stations, ParsedBy(job.kind, row).data)
             next == [job EXCEPT !.row = {}, !.out = res.err]
         IN  /\ res.last <= MaxIds
             /\ stations' = res.tbl
             /\ seq' = [seq EXCEPT !.stations = res.last]
             /\ job' = IF res.err = "ok" \/ job.kind = "excel"
                           THEN [next EXCEPT !.pc = "row"]
                       ELSE [next EXCEPT !.pc = "ended"]
    /\ UNCHANGED <<employees, maintenance, now, role, sess, page, regionAt, others, disk, upload>>

\* the input is exhausted and the counters are returned, or the exception has
\* ended the process
ImportEnd ==
    /\ job.pc \in {"row", "ended"}
    /\ job' = NoJob
    /\ UNCHANGED <<stations, employees, maintenance, seq, now, role, sess, page, regionAt, others,
                   disk, upload>>

(***************************************************************************)
(* Connections.  A repository call is get_conn(), execute, commit, close;  *)
(* an exception raised by execute leaves the function at once.  A          *)
(* connection that no call holds any more is closed, and its transaction   *)
(* rolled back, when the interpreter reclaims the object.                  *)
(***************************************************************************)
MaxConns == 3

Calls == {"add_station", "update_station", "delete_station", "station_exists"}
Writes == {"add_station", "update_station", "delete_station"}
CallNames == {<<"a">>, <<"b">>}

\* the connection that session s's call in progress holds
Held(s) == {c \in conns : c.owner = s /\ c.state \in {"opened", "executed", "committed"}}

\* the connections whose transaction has written and is not committed
Writers == {c \in conns : c.state = "executed" \/ (c.state = "abandoned" /\ c.txn)}

\* get_conn(): sqlite3.connect(DB_FILE), under the lowest free handle
get_conn(open, s, call, id, name) ==
    open \cup {[fd |-> CHOOSE n \in 1..MaxConns :
                          /\ \A c \in open : c.fd # n
                          /\ \A m \in 1..(n - 1) : \E c \in open : c.fd = m,
                owner |-> s, call |-> call, id |-> id, name |-> name,
                state |-> "opened", txn |-> FALSE, err |-> "none"]}

\* execute raises: control leaves the function, commit and close are not reached
raised(open, c, err) ==
    (open \ {c}) \cup {[c EXCEPT !.state = "abandoned", !.err = err,
                                 !.txn = (err = "IntegrityError")]}

\* the statement of a call, on the table as committed
Statement(c) ==
    IF c.call = "add_station"
        THEN add_station(stations, seq.stations, station_form(c.name, "RRP", <<>>, "", ""))
    ELSE IF c.call = "update_station"
        THEN update_station(stations, c.id, station_form(c.name, "RRP", <<>>, "", ""))
            @@ [last |-> seq.stations]
    ELSE IF c.call = "delete_station"
        THEN [tbl |-> delete_station(stations, c.id), last |-> seq.stations, err |-> "ok"]
    ELSE [tbl |-> stations, last |-> seq.stations, err |-> "ok"]

\* a repository function is entered: conn = get_conn(), c = conn.cursor()
Connect(s) ==
    /\ Held(s) = {}
    /\ Cardinality(conns) < MaxConns
    /\ \E call \in Calls, id \in 1..MaxIds, name \in CallNames :
         conns' = get_conn(conns, s, call, IF call = "add_station" THEN 0 ELSE id,
                           IF call = "delete_station" THEN <<>> ELSE name)
    /\ UNCHANGED <<stations, employees, maintenance, seq, now, role, sess, page, regionAt,
                   job, disk, upload, session_state>>

\* c.execute(...): the statement runs in the connection's transaction, or raises
\* sqlite3.IntegrityError, or, while another connection's transaction has
\* written, sqlite3.OperationalError (database is locked)
Execute(s) ==
    /\ \E c \in Held(s) :
         /\ c.state = "opened"
         /\ \/ /\ c.call \in Writes => Writers = {}
               /\ Statement(c).last <= MaxIds
               /\ conns' = IF Statement(c).err = "ok"
                               THEN (conns \ {c}) \cup {[c EXCEPT !.state = "executed",
                                                             !.txn = c.call \in Writes]}
                           ELSE raised(conns, c, Statement(c).err)
            \/ /\ c.call \in Writes /\ Writers # {}
               /\ conns' = raised(conns, c, "OperationalError")
    /\ UNCHANGED <<stations, employees, maintenance, seq, now, role, sess, page, regionAt,
                   job, disk, upload, session_state>>

\* conn.commit(): the statement's effect reaches the database file
Commit(s) ==
    /\ \E c \in Held(s) :
         /\ c.state = "executed"
         /\ stations' = Statement(c).tbl
         /\ seq' = [seq EXCEPT !.stations = Statement(c).last]
         /\ conns' = (conns \ {c}) \cup {[c EXCEPT !.state = "committed", !.txn = FALSE]}
    /\ UNCHANGED <<employees, maintenance, now, role, sess, page, regionAt, job, disk, upload,
                   session_state>>

\* conn.close(), and the function returns
Close(s) ==
    /\ \E c \in Held(s) :
         /\ c.state = "committed"
         /\ conns' = conns \ {c}
    /\ UNCHANGED <<stations, employees, maintenance, seq, now, role, sess, page, regionAt,
                   job, disk, upload, session_state>>

\* the interpreter reclaims an abandoned connection object: closed, rolled back
Collect ==
    /\ \E c \in conns :
         /\ c.state = "abandoned"
         /\ conns' = conns \ {c}
    /\ UNCHANGED <<stations, employees, maintenance, seq, now, role, sess, page, regionAt,
                   job, disk, upload, session_state>>

(***************************************************************************)
(* Login and logout.  st.session_state holds the keys authed, role and     *)
(* page; a key that was never set, or was deleted, is ABSENT.  After a     *)
(* login run, key keeps the password that was typed.                       *)
(***************************************************************************)
EMPLOYEES_PAGE == "Sotrudniki"
STATIONS_PAGE == "Bazovye stantsii"
Pages == {HOME, EMPLOYEES_PAGE, STATIONS_PAGE}

\* the environment of this deployment: one password is in both lists
HR_APP_PASSWORD == <<"4", ",", " ", "7">>
HR_VIEWER_PASSWORD == <<"1", ",", "7", ",">>

\* str.split(","): the pieces between the commas
SplitComma(s) ==
    LET cuts == {0, Len(s) + 1} \cup {k \in 1..Len(s) : s[k] = ","} IN
    {SubSeq(s, a + 1, b - 1) :
        <<a, b>> \in {w \in cuts \X cuts :
                        w[1] < w[2] /\ ~\E c \in cuts : w[1] < c /\ c < w[2]}}

\* [p.strip() for p in PASSWORD.split(",") if p.strip()]
PasswordList(env) == {Strip(p) : p \in SplitComma(env)} \ {<<>>}

ADMIN_PASSWORDS == PasswordList(HR_APP_PASSWORD)
VIEWER_PASSWORDS == PasswordList(HR_VIEWER_PASSWORD)

\* what is typed into the password box
Passwords == {<<>>, <<"4">>, <<" ", "4">>, <<"1">>, <<"1", " ">>, <<"7">>, <<"9">>}

\* a browser session before its first script run
NewSession == [authed |-> ABSENT, page |-> ABSENT]

\* a run of the login page or of a logout button, as the session's last run
AuthRun(op, pwd, out) ==
    [Ended(Run("idle", op, 0, <<>>, {}, <<>>, FALSE, FALSE), out) EXCEPT !.key = pwd]

\* a variant that lets the script go on behind the login form
require_auth_no_stop(s) == TRUE

\* require_auth: the script goes on only when authed is set; otherwise st.stop()
require_auth(s) == session_state[s].authed = "True"

\* main: the script reaches the body of page p
OnPage(s, p) ==
    /\ require_auth(s)
    /\ (IF session_state[s].page = ABSENT THEN HOME ELSE session_state[s].page) = p

\* require_auth, no button pressed: the defaults of a session without the key authed
ShowLogin(s) ==
    /\ sess[s].pc = "idle"
    /\ session_state[s].authed = ABSENT
    /\ session_state' = [session_state EXCEPT ![s].authed = "False"]
    /\ role' = [role EXCEPT ![s] = "None"]
    /\ sess' = [sess EXCEPT ![s] = AuthRun("login_page", <<>>, "stop")]
    /\ UNCHANGED <<stations, employees, maintenance, seq, now, page, job, disk, upload,
                   conns, regionAt>>

\* require_auth, the login button pressed with pwd in the password box
Login(s) ==
    /\ sess[s].pc = "idle"
    /\ session_state[s].authed = "False"
    /\ \E pwd \in Passwords :
         LET p == Strip(pwd) IN
         IF p \in ADMIN_PASSWORDS
         THEN /\ session_state' = [session_state EXCEPT ![s].authed = "True"]
              /\ role' = [role EXCEPT ![s] = "admin"]
              /\ sess' = [sess EXCEPT ![s] = AuthRun("login", pwd, "admin")]
         ELSE IF p \in VIEWER_PASSWORDS
         THEN /\ session_state' = [session_state EXCEPT
                                      ![s] = [authed |-> "True", page |-> EMPLOYEES_PAGE]]
              /\ role' = [role EXCEPT ![s] = "viewer"]
              /\ sess' = [sess EXCEPT ![s] = AuthRun("login", pwd, "viewer")]
         ELSE /\ sess' = [sess EXCEPT ![s] = AuthRun("login", pwd, "error")]
              /\ UNCHANGED <<session_state, role>>
    /\ UNCHANGED <<stations, employees, maintenance, seq, now, page, job, disk, upload,
                   conns, regionAt>>

\* main, the top-right logout button: safe_rerun() is inside the loop over the keys,
\* and it never returns, so the loop ends after its first key
LogoutTop(s) ==
    /\ sess[s].pc = "idle"
    /\ require_auth(s) /\ session_state[s].authed = "True"
    /\ session_state[s].page # ABSENT        \* an earlier run of main drew the button
    /\ session_state' = [session_state EXCEPT ![s].authed = ABSENT]
    /\ sess' = [sess EXCEPT ![s] = AuthRun("logout", <<>>, "rerun")]
    /\ UNCHANGED <<stations, employees, maintenance, seq, now, role, page, job, disk,
                   upload, conns, regionAt>>

\* main, the sidebar's logout button: the loop deletes the three keys, then safe_rerun()
LogoutSidebar(s) ==
    /\ sess[s].pc = "idle"
    /\ require_auth(s) /\ session_state[s].authed = "True"
    /\ session_state[s].page # ABSENT        \* an earlier run of main drew the button
    /\ session_state' = [session_state EXCEPT ![s] = [authed |-> ABSENT, page |-> ABSENT]]
    /\ role' = [role EXCEPT ![s] = ABSENT]
    /\ sess' = [sess EXCEPT ![s] = AuthRun("logout_sidebar", <<>>, "rerun")]
    /\ UNCHANGED <<stations, employees, maintenance, seq, now, page, job, disk, upload,
                   conns, regionAt>>

\* main, a run with no button pressed: the default page of a session without the key
Render(s) ==
    /\ sess[s].pc = "idle"
    /\ require_auth(s)
    /\ session_state[s].page = ABSENT
    /\ session_state' = [session_state EXCEPT ![s].page = HOME]
    /\ UNCHANGED <<stations, employees, maintenance, seq, now, role, sess, page, job,
                   disk, upload, conns, regionAt>>

\* main, a navigation button of the sidebar
Navigate(s) ==
    /\ sess[s].pc = "idle"
    /\ require_auth(s)
    /\ session_state[s].page # ABSENT        \* an earlier run of main drew the button
    /\ \E p \in Pages : session_state' = [session_state EXCEPT ![s].page = p]
    /\ UNCHANGED <<stations, employees, maintenance, seq, now, role, sess, page, job,
                   disk, upload, conns, regionAt>>

(***************************************************************************)
(* Specifications.                                                         *)
(***************************************************************************)
\* the entity forms of both pages, two sessions interleaved
NextCrud ==
    \/ \E s \in Sessions : AddStationCheck(s)
    \/ \E s \in Sessions : AddStationInsert(s, OneRegion, NoNotes)
    \/ \E s \in Sessions : EditStationFetch(s)
    \/ \E s \in Sessions : EditStationCheck(s)
    \/ \E s \in Sessions : EditStationUpdate(s, OneRegion, NotesValues)
    \/ \E s \in Sessions : DeleteStationFetch(s)
    \/ \E s \in Sessions : DeleteStation(s)
    \/ \E s \in Sessions : SaveNotesFetch(s)
    \/ \E s \in Sessions : SaveNotes(s, NotesValues)
    \/ \E s \in Sessions : AddEmployeeCheck(s)
    \/ \E s \in Sessions : AddEmployeeInsert(s, {""})
    \/ \E s \in Sessions : EditEmployeeFetch(s)
    \/ \E s \in Sessions : EditEmployeeCheck(s)
    \/ \E s \in Sessions : EditEmployeeUpdate(s)
    \/ \E s \in Sessions : DeleteEmployeeFetch(s)
    \/ \E s \in Sessions : DeleteEmployee(s)
    \/ \E s \in Sessions : ReplacePhotoFetch(s)
    \/ \E s \in Sessions : ReplacePhoto(s, Uploads)

\* the first session is an administrator's
InitCrud == Init /\ role["s1"] = "admin"

SpecCrud == InitCrud /\ [][NextCrud]_vars

\* the stations page with its maintenance form, and the clock
NextMaint ==
    \/ Tick
    \/ \E s \in Sessions : AddStationCheck(s)
    \/ \E s \in Sessions : AddStationInsert(s, Regions, NoNotes)
    \/ \E s \in Sessions : EditStationFetch(s)
    \/ \E s \in Sessions : EditStationCheck(s)
    \/ \E s \in Sessions : EditStationUpdate(s, Regions, NoNotes)
    \/ \E s \in Sessions : DeleteStationFetch(s)
    \/ \E s \in Sessions : DeleteStation(s)
    \/ \E s \in Sessions : SaveMaintenanceFetch(s)
    \/ \E s \in Sessions : SaveMaintenanceInsert(s)

\* an administrator's session and a viewer's
InitMaint == Init /\ role["s1"] = "admin" /\ role["s2"] = "viewer"

SpecMaint == InitMaint /\ [][NextMaint]_vars

\* the employee forms with their uploads, two administrators interleaved
NextFiles ==
    \/ \E s \in Sessions : AddEmployeeCheck(s)
    \/ \E s \in Sessions : UploadProbe(s)
    \/ \E s \in Sessions : UploadWrite(s)
    \/ \E s \in Sessions : UploadError(s)
    \/ \E s \in Sessions : AddEmployeeStore(s)
    \/ \E s \in Sessions : ReplacePhotoFetch(s)
    \/ \E s \in Sessions : ReplacePhotoStore(s)

InitFiles == Init /\ role = [s \in Sessions |-> "admin"]

SpecFiles == InitFiles /\ [][NextFiles]_vars

\* the import scripts, next to an administrator who adds stations
NextImport ==
    \/ ImportStart
    \/ ImportRow
    \/ ImportInsert
    \/ ImportEnd
    \/ \E s \in Sessions : AddStationCheck(s)
    \/ \E s \in Sessions : AddStationInsert(s, OneRegion, NoNotes)

InitImport == Init /\ role["s1"] = "admin" /\ role["s2"] = "viewer"

SpecImport == InitImport /\ [][NextImport]_vars

\* repository calls on the stations table, step by step, from two sessions
NextConn ==
    \/ \E s \in Sessions : Connect(s)
    \/ \E s \in Sessions : Execute(s)
    \/ \E s \in Sessions : Commit(s)
    \/ \E s \in Sessions : Close(s)
    \/ Collect

InitConn == Init /\ role = [s \in Sessions |-> "admin"]

SpecConn == InitConn /\ [][NextConn]_vars

\* the browser sessions that open the application
Visitors == {"s1"}

\* login, logout and navigation, around the forms of both pages
NextAuth ==
    \/ \E s \in Visitors : ShowLogin(s)
    \/ \E s \in Visitors : Login(s)
    \/ \E s \in Visitors : LogoutTop(s)
    \/ \E s \in Visitors : LogoutSidebar(s)
    \/ \E s \in Visitors : Render(s)
    \/ \E s \in Visitors : Navigate(s)
    \/ \E s \in Visitors : OnPage(s, STATIONS_PAGE) /\ AddStationCheck(s)
    \/ \E s \in Visitors : AddStationInsert(s, OneRegion, NoNotes)
    \/ \E s \in Visitors : OnPage(s, STATIONS_PAGE) /\ DeleteStationFetch(s)
    \/ \E s \in Visitors : DeleteStation(s)
    \/ \E s \in Visitors : OnPage(s, STATIONS_PAGE) /\ SaveNotesFetch(s)
    \/ \E s \in Visitors : SaveNotes(s, NotesValues)
    \/ \E s \in Visitors : OnPage(s, STATIONS_PAGE) /\ SaveMaintenanceFetch(s)
    \/ \E s \in Visitors : SaveMaintenanceInsert(s)
    \/ \E s \in Visitors : OnPage(s, EMPLOYEES_PAGE) /\ AddEmployeeCheck(s)
    \/ \E s \in Visitors : AddEmployeeInsert(s, {""})

\* no browser session has logged in
InitAuth ==
    /\ stations = {}
    /\ employees = {}
    /\ maintenance = {}
    /\ seq = [stations |-> 0, employees |-> 0, station_maintenance |-> 0]
    /\ now = 0
    /\ role = [s \in Sessions |-> ABSENT]
    /\ sess = [s \in Sessions |-> Fresh]
    /\ page = NoPage
    /\ regionAt = <<>>
    /\ job = NoJob
    /\ disk = <<>>
    /\ upload = [s \in Sessions |-> NoUpload]
    /\ conns = {}
    /\ session_state = [s \in Sessions |-> NewSession]

SpecAuth == InitAuth /\ [][NextAuth]_vars

(***************************************************************************)
(* The list pages: main() reads the search box and the region select box   *)
(* and renders fetch_stations / fetch_employees of them.                    *)
(***************************************************************************)
MaxSearchLen == 2
SearchAlphabet == {" ", "%", "A", "_", "a", "b"}
SearchTexts == UNION {[1..n -> SearchAlphabet] : n \in 0..MaxSearchLen}
RegionFilters == {ALL} \cup Regions

\* a stations row with the text columns that fetch_stations searches
StationRow(id, name, location, contact, notes, region) ==
    [id |-> id] @@ [station_form(name, region, notes, "", "")
                        EXCEPT !.location = location, !.contact = contact]

\* an employees row with the text columns that fetch_employees searches
EmployeeRow(id, rakami_tabel, last_name, phone, makon) ==
    [id |-> id] @@ [employee_form(rakami_tabel, "", "")
                        EXCEPT !.last_name = last_name, !.phone = phone, !.makon = makon]

\* rows as the forms store them: stripped unique keys, free text elsewhere
StationPool ==
    {StationRow(1, <<"a", "b">>, <<>>, <<>>, <<>>, "RRP"),
     StationRow(2, <<"A">>, <<"b", " ", "a">>, <<>>, <<>>, "VMKB"),
     StationRow(3, <<"b">>, <<>>, <<"_">>, <<"a", "%">>, "RRP"),
     StationRow(4, <<"b", " ", "b">>, <<>>, <<>>, <<"A", "a">>, "VMKB")}

EmployeePool ==
    {EmployeeRow(1, <<"b">>, <<"A", "b">>, <<>>, "RRP"),
     EmployeeRow(2, <<"a">>, <<"b", " ", "a">>, <<"_">>, "VMKB"),
     EmployeeRow(3, <<"A", "%">>, <<"a">>, <<>>, "RRP")}

\* the stations page: rows = fetch_stations(search=search, region=region)
StationsPage(search, region) ==
    /\ page' = [table |-> "stations", search |-> search, region |-> region,
                rows |-> fetch_stations(stations, search, region)]
    /\ UNCHANGED <<stations, employees, maintenance, seq, now, role, sess, regionAt, others,
                   job, disk, upload>>

\* the employees page: rows = fetch_employees(search=search, region=region)
EmployeesPage(search, region) ==
    /\ page' = [table |-> "employees", search |-> search, region |-> region,
                rows |-> fetch_employees(employees, search, region)]
    /\ UNCHANGED <<stations, employees, maintenance, seq, now, role, sess, regionAt, others,
                   job, disk, upload>>

NextFetch ==
    \/ \E search \in SearchTexts, region \in RegionFilters : StationsPage(search, region)
    \/ \E search \in SearchTexts, region \in RegionFilters : EmployeesPage(search, region)

\* any registry the forms can have built from the pools, some rows deleted since
InitFetch ==
    /\ stations \in SUBSET StationPool
    /\ employees \in SUBSET EmployeePool
    /\ maintenance = {}
    /\ seq = [stations |-> Cardinality(StationPool),
              employees |-> Cardinality(EmployeePool), station_maintenance |-> 0]
    /\ now = 0
    /\ role = [s \in Sessions |-> "admin"]
    /\ sess = [s \in Sessions |-> Fresh]
    /\ page = NoPage
    /\ regionAt = <<>>
    /\ job = NoJob
    /\ disk = <<>>
    /\ upload = [s \in Sessions |-> NoUpload]
    /\ conns = {}
    /\ session_state = [s \in Sessions |-> LoggedIn]

SpecFetch == InitFetch /\ [][NextFetch]_vars

(***************************************************************************)
(* The reports page over a registry of up to MaxStations stations.         *)
(***************************************************************************)
MaxStations == 80
NameBits == 7

RegionEnum == {"RRP", "VMKB", "RUHO", "RUSO", "Dushanbe"}
TypeEnum == {"Bazovaya", "Retranslyator", "Sputnikovaya", "Mobilnaya"}
StatusEnum == {"Aktivna", "Neaktivna", "Na obsluzhivanii", "Rezerv"}
Unrecognized == "XYZ"                  \* a value an imported file brought in

\* the i-th of a run of distinct station names
StationName(i) ==
    [k \in 1..NameBits |-> IF (i \div (2 ^ (NameBits - k))) % 2 = 1 THEN "b" ELSE "a"]

\* a registry of n stations, the first a of them active; the other fields go
\* through the values the forms and the importers store, blank ones included
Registry(n, a) ==
    {[StationRow(i, StationName(i), <<>>, <<>>, <<>>,
                 <<"RRP", "VMKB", "", Unrecognized>>[(i % 4) + 1])
        EXCEPT !.status = IF i <= a THEN ACTIVE
                          ELSE <<"Neaktivna", "", "Rezerv", Unrecognized>>[(i % 4) + 1],
               !.type = <<"Bazovaya", "", Unrecognized>>[(i % 3) + 1]] : i \in 1..n}

\* main, reports: all_stations = fetch_stations(), the three histograms and the
\* general figures; nothing but a notice when there is no station
ReportsPage ==
    /\ \E all_stations \in {fetch_stations(stations, <<>>, ALL)} :
         \E rows \in {{all_stations[i] : i \in DOMAIN all_stations}} :
            LET total_stations == Len(all_stations)
                active_stations == Cardinality({r \in rows : r.status = ACTIVE})
            IN  page' = IF all_stations # <<>>
                        THEN [table |-> "reports", shown |-> TRUE,
                              region_stats |-> Histogram(rows, "region"),
                              type_stats |-> Histogram(rows, "type"),
                              status_stats |-> Histogram(rows, "status"),
                              total_stations |-> total_stations,
                              active_stations |-> active_stations,
                              availability |->
                                  Availability(active_stations, total_stations)]
                        ELSE [table |-> "reports", shown |-> FALSE]
    /\ UNCHANGED <<stations, employees, maintenance, seq, now, role, sess, regionAt, others,
                   job, disk, upload>>

NextReport == ReportsPage

InitReport ==
    /\ \E n \in 0..MaxStations, a \in 0..MaxStations :
          a <= n /\ stations = Registry(n, a) /\ seq = [stations |-> n, employees |-> 0,
                                                        station_maintenance |-> 0]
    /\ employees = {}
    /\ maintenance = {}
    /\ now = 0
    /\ role = [s \in Sessions |-> "admin"]
    /\ sess = [s \in Sessions |-> Fresh]
    /\ page = NoPage
    /\ regionAt = <<>>
    /\ job = NoJob
    /\ disk = <<>>
    /\ upload = [s \in Sessions |-> NoUpload]
    /\ conns = {}
    /\ session_state = [s \in Sessions |-> LoggedIn]

SpecReport == InitReport /\ [][NextReport]_vars

(***************************************************************************)
(* The export of the reports tab, and the forms of both roles side by side *)
(***************************************************************************)
StatusFilters == {ALL, ACTIVE}

\* main, reports: the stations that pass the region and the status select boxes
filtered_stations(all_stations, report_region, report_status) ==
    SelectSeq(all_stations,
              LAMBDA station :
                  /\ report_region # ALL => station.region = report_region
                  /\ report_status # ALL => station.status = report_status)

\* main, reports: the export button, drawn for an administrator under a table that is
\* not empty; the CSV text goes to the browser, the run's rowcount keeps its row count
Export(s) ==
    /\ role[s] = "admin"
    /\ sess[s].pc = "idle"
    /\ \E report_region \in RegionFilters, report_status \in StatusFilters :
         \E shown \in {filtered_stations(fetch_stations(stations, <<>>, ALL),
                                         report_region, report_status)} :
            /\ shown # <<>>
            /\ sess' = [sess EXCEPT ![s] =
                  [Ended(Run("idle", "export", 0, <<>>, {}, <<>>, FALSE, FALSE), "ok")
                      EXCEPT !.rowcount = Len(shown)]]
    /\ UNCHANGED <<stations, employees, maintenance, seq, now, role, regionAt, reads>>

\* an administrator's session next to a viewer's: the forms of the stations page, the
\* export, and the adding and deleting of employees
NextRoles ==
    \/ \E s \in Sessions : AddStationCheck(s)
    \/ \E s \in Sessions : AddStationInsert(s, OneRegion, NoNotes)
    \/ \E s \in Sessions : EditStationFetch(s)
    \/ \E s \in Sessions : EditStationCheck(s)
    \/ \E s \in Sessions : EditStationUpdate(s, OneRegion, NoNotes)
    \/ \E s \in Sessions : DeleteStationFetch(s)
    \/ \E s \in Sessions : DeleteStation(s)
    \/ \E s \in Sessions : SaveNotesFetch(s)
    \/ \E s \in Sessions : SaveNotes(s, NotesValues)
    \/ \E s \in Sessions : SaveMaintenanceFetch(s)
    \/ \E s \in Sessions : SaveMaintenanceInsert(s)
    \/ \E s \in Sessions : AddEmployeeCheck(s)
    \/ \E s \in Sessions : AddEmployeeInsert(s, {""})
    \/ \E s \in Sessions : DeleteEmployeeFetch(s)
    \/ \E s \in Sessions : DeleteEmployee(s)
    \/ \E s \in Sessions : Export(s)

InitRoles == Init /\ role["s1"] = "admin" /\ role["s2"] = "viewer"

SpecRoles == InitRoles /\ [][NextRoles]_vars

(***************************************************************************)
(* Properties.                                                             *)
(***************************************************************************)
AddOps == {"add_station", "add_employee"}
UpdateOps == {"edit_station", "save_notes", "edit_employee", "replace_photo"}
StationOps == {"add_station", "edit_station", "save_notes", "delete_station"}

\* the table an operation works on
TableOf(op) == IF op \in StationOps THEN stations ELSE employees

\* the business key of a row of either table
KeyOf(r) == IF "name" \in DOMAIN r THEN r.name ELSE r.rakami_tabel

\* session s takes the step that is its run's INSERT of an entity row
Inserts(s) == sess[s].pc = "write" /\ sess[s].op \in AddOps /\ sess'[s].pc = "idle"

\* session s takes the step that is its run's UPDATE of an entity row
Updates(s) ==
    /\ sess[s].pc \in {"write", "fetched"} /\ sess[s].op \in UpdateOps
    /\ sess'[s].pc = "idle" /\ sess'[s].rowcount # -1

\* C1: in every reachable state no two employee rows have the same tabel number
\* and no two station rows have the same name.
C1_UniqueKeys ==
    /\ \A r, q \in employees : r.rakami_tabel = q.rakami_tabel => r = q
    /\ \A r, q \in stations : r.name = q.name => r = q

\* two rows in each table, after an insert the store has refused
C1_Witness ==
    /\ Cardinality(stations) = 2 /\ Cardinality(employees) = 2
    /\ \E s \in Sessions : sess[s].out = "IntegrityError"

\* C2: an add whose business key is that of an existing row ends in the
\* duplicate-key error (sqlite3.IntegrityError) and leaves both tables and the id
\* counters as they were.
C2_DuplicateAddFails ==
    [][\A s \in Sessions :
         (/\ Inserts(s)
          /\ \E r \in TableOf(sess[s].op) : KeyOf(r) = sess[s].key)
         => (/\ sess'[s].out = "IntegrityError"
             /\ stations' = stations /\ employees' = employees /\ seq' = seq)]_vars

\* an add_employee call has met an existing tabel number
C2_Witness ==
    \E s \in Sessions :
        /\ sess[s].op = "add_employee" /\ sess[s].out = "IntegrityError"
        /\ employees # {}

\* C3: when both sessions pass the exists pre-check of an add for the same key
\* before either inserts, one insert succeeds and the other is refused by the
\* UNIQUE constraint, and no two rows hold one key.
C3_RaceOneWins ==
    \A s \in Sessions :
        LET a == sess[s]
            b == sess[Other(s)]
        IN  (/\ a.raced /\ b.raced /\ a.pc = "idle" /\ b.pc = "idle"
             /\ a.op \in AddOps /\ b.op = a.op)
            => (/\ {a.out, b.out} = {"ok", "IntegrityError"}
                /\ \A r, q \in TableOf(a.op) : KeyOf(r) = KeyOf(q) => r = q)

\* both sessions raced an add_station and both inserts have run
C3_Witness ==
    \A s \in Sessions :
        /\ sess[s].raced /\ sess[s].pc = "idle" /\ sess[s].op = "add_station"
        /\ sess[s].out # "none"

\* C4: every run that writes a business key (the add and edit forms, the
\* viewer's save-notes, the photo replacement) has called the exists pre-check
\* before its write.
C4_WritesAreChecked ==
    \A s \in Sessions :
        (/\ sess[s].pc = "idle" /\ sess[s].op \in AddOps \cup UpdateOps
         /\ sess[s].out \in {"ok", "IntegrityError"})
        => sess[s].checked

\* C5: an update whose id is in no row of the table ends in NotFound and leaves
\* the store unchanged.
C5_UpdateMissingIsNotFound ==
    [][\A s \in Sessions :
         (/\ Updates(s)
          /\ ~ \E r \in TableOf(sess[s].op) : r.id = sess[s].id)
         => (/\ sess'[s].out = "NotFound"
             /\ stations' = stations /\ employees' = employees)]_vars

\* C7: each add_maintenance_record call of a submission appends exactly one
\* record, of the next selected type, for the submitted station and today; a
\* submission with no type selected appends none; whatever the step, every
\* record of the journal stays as it is, and only a submission step adds one.
C7_JournalAppendOnly ==
    [][/\ maintenance \subseteq maintenance'
       /\ \A s \in Sessions :
            LET a == sess[s] IN
            /\ (a.op = "save_maintenance" /\ a.pc = "fetched" /\ sess'[s] # a)
               => /\ \E m \in maintenance' \ maintenance :
                       /\ maintenance' = maintenance \cup {m}
                       /\ m.station_id = a.id
                       /\ m.maintenance_type = Head(a.types)
                       /\ m.maintenance_date = Day(now)
                  /\ IF Len(a.types) = 1
                     THEN sess'[s].pc = "idle" /\ sess'[s].out = "ok"
                     ELSE sess'[s].pc = "fetched" /\ sess'[s].types = Tail(a.types)
            /\ (sess'[s].out = "warning" /\ sess'[s] # a) => maintenance' = maintenance
       /\ (\A s \in Sessions : ~ (sess[s].op = "save_maintenance" /\ sess[s].pc = "fetched"
                                   /\ sess'[s] # sess[s]))
          => maintenance' = maintenance]_vars

\* two records of one station, day and type: a repeated submission accumulated
C7_Witness ==
    \E m, n \in maintenance :
        /\ m.id # n.id /\ m.station_id = n.station_id
        /\ m.maintenance_date = n.maintenance_date
        /\ m.maintenance_type = n.maintenance_type

\* the records of the journal dated d
Dated(d) == {m \in maintenance : m.maintenance_date = d}

\* C8: for every date D, dailyStats(D) reports the number of distinct station ids
\* with a record dated D, the number of records dated D of type repair and the
\* number of type service.
C8_DailyStats ==
    \A d \in Days :
        LET stats == get_maintenance_stats(maintenance, d, now) IN
        /\ stats.total_maintained = SqlInt(Cardinality({m.station_id : m \in Dated(d)}))
        /\ stats.repairs
             = SqlInt(Cardinality({m \in Dated(d) : m.maintenance_type = "repair"}))
        /\ stats.services
             = SqlInt(Cardinality({m \in Dated(d) : m.maintenance_type = "service"}))

\* C8 on the dates that have a record: the three counts are as claimed
C8_DailyStatsOfServicedDay ==
    \A d \in Days :
        LET stats == get_maintenance_stats(maintenance, d, now) IN
        Dated(d) # {} =>
            /\ stats.total_maintained = SqlInt(Cardinality({m.station_id : m \in Dated(d)}))
            /\ stats.repairs
                 = SqlInt(Cardinality({m \in Dated(d) : m.maintenance_type = "repair"}))
            /\ stats.services
                 = SqlInt(Cardinality({m \in Dated(d) : m.maintenance_type = "service"}))

\* the records dated d whose station is in the table now, with region g
DatedInRegion(d, g) ==
    {m \in Dated(d) : \E s \in stations : s.id = m.station_id /\ s.region = g}

\* C9: statsByRegion counts every record under the region its station has at
\* query time: for every date and region, the row of the region counts exactly the
\* records of that date whose station is in that region now, and a region with no
\* such record has no row.
C9_CurrentRegion ==
    \A d \in Days :
        LET res == get_maintenance_stats_by_region(maintenance, stations, d, ALL, now) IN
        \A g \in Regions :
            LET mine == DatedInRegion(d, g)
                rows == {i \in DOMAIN res : res[i][1] = g}
            IN  IF mine = {} THEN rows = {}
                ELSE \E i \in rows :
                        /\ rows = {i}
                        /\ res[i][2] = SqlInt(Cardinality({m.station_id : m \in mine}))
                        /\ res[i][3] = SqlInt(Cardinality(
                                         {m \in mine : m.maintenance_type = "repair"}))
                        /\ res[i][4] = SqlInt(Cardinality(
                                         {m \in mine : m.maintenance_type = "service"}))

\* a record made while its station was in one region, the station since moved to
\* another: the report of the record's date has a row for the new region and none
\* for the old
C9_Witness ==
    \E m \in maintenance, s \in stations :
        LET res == get_maintenance_stats_by_region(maintenance, stations,
                                                   m.maintenance_date, ALL, now)
        IN  /\ s.id = m.station_id
            /\ regionAt[m.id] \in Regions /\ regionAt[m.id] # s.region
            /\ \E i \in DOMAIN res : res[i][1] = s.region
            /\ ~ \E i \in DOMAIN res : res[i][1] = regionAt[m.id]

\* the records a recordsFor call is to return: those satisfying every filter given
Matching(station_id, date_filter, region_filter) ==
    {m \in maintenance :
        /\ station_id # 0 => m.station_id = station_id
        /\ date_filter # NoDate => m.maintenance_date = date_filter
        /\ region_filter # ALL
              => \E s \in stations : s.id = m.station_id /\ s.region = region_filter}

\* C10: recordsFor returns exactly the records satisfying every supplied filter,
\* by maintenance date descending and, within one date, a record inserted later
\* before one inserted earlier.
C10_RecordsFor ==
    \A station_id \in 0..MaxIds, date_filter \in {NoDate} \cup Days,
       region_filter \in {ALL} \cup Regions :
        \A res \in get_maintenance_records(maintenance, stations,
                                           station_id, date_filter, region_filter) :
            /\ {res[i].id : i \in DOMAIN res}
                 = {m.id : m \in Matching(station_id, date_filter, region_filter)}
            /\ \A i, j \in DOMAIN res :
                 i < j => \/ res[i].maintenance_date > res[j].maintenance_date
                          \/ /\ res[i].maintenance_date = res[j].maintenance_date
                             /\ res[i].id > res[j].id

\* C10 without the stations deleted since: the rows are those of the live stations
C10_RecordsOfLiveStations ==
    \A station_id \in 0..MaxIds, date_filter \in {NoDate} \cup Days,
       region_filter \in {ALL} \cup Regions :
        \A res \in get_maintenance_records(maintenance, stations,
                                           station_id, date_filter, region_filter) :
            {res[i].id : i \in DOMAIN res}
              = {m.id : m \in {n \in Matching(station_id, date_filter, region_filter) :
                                  \E s \in stations : s.id = n.station_id}}

\* x occurs in s as a run of consecutive characters, ASCII letters folded
IsSubstring(x, s) ==
    \E i \in 0..(Len(s) - Len(x)) :
        \A k \in 1..Len(x) : Fold(x[k]) = Fold(s[i + k])

SearchedColumns(table) ==
    IF table = "stations" THEN {"name", "location", "contact", "notes"}
    ELSE {"rakami_tabel", "last_name", "first_name", "nasab", "phone"}

RegionOf(r) == IF "region" \in DOMAIN r THEN r.region ELSE r.makon

\* the rows of a page come in ascending key order, each once
Ascending(rows) ==
    \A i, j \in DOMAIN rows : i < j => TextLess(OrderKey(rows[i]), OrderKey(rows[j]))

\* C6: fetch with empty search and region 'All' returns every row; fetch(X, R)
\* returns exactly the rows whose region is R (R not the sentinel) and that have X
\* as a substring of a searched column (letters compared as the implementation
\* chooses); the result is in ascending order of the business key.
C6_FetchSubstring ==
    page.table # "none" =>
        LET tbl == IF page.table = "stations" THEN stations ELSE employees IN
        /\ {page.rows[i] : i \in DOMAIN page.rows}
             = {r \in tbl :
                  /\ page.region # ALL => RegionOf(r) = page.region
                  /\ \E col \in SearchedColumns(page.table) :
                        IsSubstring(page.search, r[col])}
        /\ Ascending(page.rows)
        /\ (page.search = <<>> /\ page.region = ALL) => Len(page.rows) = Cardinality(tbl)

\* the maximal runs of x without a "%"
RECURSIVE SplitAtPercent(_)
SplitAtPercent(x) ==
    IF x = <<>> THEN << <<>> >>
    ELSE LET rest == SplitAtPercent(Tail(x)) IN
         IF Head(x) = "%" THEN << <<>> >> \o rest
         ELSE << <<Head(x)>> \o Head(rest) >> \o Tail(rest)

\* the runs of x occur in s one after another, "_" standing for any one character
OccursAsPattern(x, s) ==
    LET runs == SelectSeq(SplitAtPercent(x), LAMBDA g : g # <<>>)
        At(g, i) == /\ i + Len(g) - 1 <= Len(s)
                    /\ \A k \in 1..Len(g) : g[k] = "_" \/ Fold(g[k]) = Fold(s[i + k - 1])
    IN  \E at \in [1..Len(runs) -> 1..Len(s) + 1] :
            /\ \A j \in 1..Len(runs) : At(runs[j], at[j])
            /\ \A j \in 1..(Len(runs) - 1) : at[j] + Len(runs[j]) <= at[j + 1]

\* what the list pages do return: the rows of the region in which the stripped
\* search text occurs as a LIKE pattern, in ascending key order
FetchAsLikePattern ==
    page.table # "none" =>
        LET tbl == IF page.table = "stations" THEN stations ELSE employees IN
        /\ {page.rows[i] : i \in DOMAIN page.rows}
             = {r \in tbl :
                  /\ page.region # ALL => RegionOf(r) = page.region
                  /\ page.search # <<>> =>
                        \E col \in SearchedColumns(page.table) :
                            OccursAsPattern(Strip(page.search), r[col])}
        /\ Ascending(page.rows)

\* the records whose station has been deleted
Orphans == {m \in maintenance : ~ \E s \in stations : s.id = m.station_id}

\* C11: after a station is deleted its maintenance records are still returned by
\* recordsFor(stationId = the deleted id): every record of a deleted station is a
\* row of every result of the query for its station id.
C11_OrphansQueryable ==
    \A m \in Orphans :
        \A res \in get_maintenance_records(maintenance, stations, m.station_id, NoDate, ALL) :
            \E i \in DOMAIN res : res[i].id = m.id

\* the first half of C11: deleting a station removes none of its records
OrphansRemainStored ==
    [][\A s \in Sessions :
          (sess[s].op = "delete_station" /\ sess[s].pc = "fetched" /\ sess'[s].pc = "idle")
              => maintenance' = maintenance]_vars

\* C12: at the moment a maintenance record is inserted, a station row with the
\* record's station id exists, whatever an administrator's delete did in between.
C12_StationExistsAtInsert ==
    [][\A m \in maintenance' \ maintenance :
          \E r \in stations : r.id = m.station_id]_vars

\* the stations the report counted
ActiveNow == Cardinality({r \in stations : r.status = ACTIVE})

\* C13 with ties to even, the rule of round(): availability is active / total * 100
\* rounded to one decimal (in tenths: the integer nearest to 1000 * active / total, a
\* quotient ending in 5 going to the even tenth), and 0 when there is no station.
C13_AvailabilityRounded ==
    /\ Availability(0, 0) = 0
    /\ (page.table = "reports" /\ page.shown) =>
          LET total == Cardinality(stations)
              exact == 1000 * ActiveNow
              down == exact \div total
              left == exact % total
          IN  page.availability =
                 IF 2 * left < total THEN down
                 ELSE IF 2 * left > total THEN down + 1
                 ELSE IF down % 2 = 0 THEN down ELSE down + 1

\* C13 (as amended): availability is a one-decimal value nearest to
\* active / total * 100, either neighbour when the quotient ends in 5 exactly;
\* 33.3 for one active station of three; 0, computed without a division, when
\* there is no station.
C13_AvailabilityNearest ==
    /\ Availability(0, 0) = 0
    /\ (page.table = "reports" /\ page.shown) =>
          LET total == Cardinality(stations)
              off == page.availability * total - 1000 * ActiveNow
          IN  /\ 2 * off <= total /\ -2 * off <= total
              /\ (total = 3 /\ ActiveNow = 1) => page.availability = 333

\* the report of 80 stations with 23 active: the quotient is 28.75, shown as 28.7
C13_Witness ==
    /\ page.table = "reports" /\ page.shown
    /\ Cardinality(stations) = 80 /\ ActiveNow = 23
    /\ page.availability = 287

EnumOf(field) ==
    IF field = "region" THEN RegionEnum ELSE IF field = "type" THEN TypeEnum ELSE StatusEnum

StatsOf(field) ==
    IF field = "region" THEN page.region_stats
    ELSE IF field = "type" THEN page.type_stats ELSE page.status_stats

\* C14: in the region, type and status histograms every station whose value is
\* blank or not of the enumeration is counted in the one 'Unknown' bucket, and the
\* stations with a recognized value under that value.
C14_UnknownBucket ==
    (page.table = "reports" /\ page.shown) =>
        \A field \in {"region", "type", "status"} :
            LET stats == StatsOf(field)
                known == {r \in stations : r[field] \in EnumOf(field)}
            IN  /\ DOMAIN stats \subseteq EnumOf(field) \cup {Unknown}
                /\ \A v \in EnumOf(field) :
                      LET n == Cardinality({r \in known : r[field] = v})
                      IN  IF n = 0 THEN v \notin DOMAIN stats ELSE stats[v] = n
                /\ IF known = stations THEN Unknown \notin DOMAIN stats
                   ELSE stats[Unknown] = Cardinality(stations \ known)

\* what the histograms do count: the blank values under 'Unknown', every other
\* value under itself
HistogramsByValue ==
    (page.table = "reports" /\ page.shown) =>
        \A field \in {"region", "type", "status"} :
            LET stats == StatsOf(field) IN
            /\ DOMAIN stats = {IF r[field] = "" THEN Unknown ELSE r[field] : r \in stations}
            /\ \A r \in stations :
                  IF r[field] = ""
                  THEN stats[Unknown] = Cardinality({q \in stations : q[field] = ""})
                  ELSE stats[r[field]] = Cardinality({q \in stations : q[field] = r[field]})

(***************************************************************************)
(* Uploads                                                                 *)
(***************************************************************************)
\* session s completes the write of its upload in this step
Written(s) ==
    /\ upload[s].pc = "chosen" /\ upload'[s].pc = "none"
    /\ sess'[s] = sess[s]

InDir(p, target_dir) ==
    Len(p) >= Len(target_dir) /\ SubSeq(p, 1, Len(target_dir)) = target_dir

\* the path is the hint's sanitised name with _k before the extension
Suffixed(p, target_dir, filename_hint) ==
    \E k \in 1..MaxFiles :
        p = Target(target_dir, SafeRoot(SplitExt(filename_hint).root),
                   SplitExt(filename_hint).ext, k)

\* C15: when an upload is written after an earlier upload with the same filename
\* hint was stored in the same directory, it is stored under another path, that
\* path carries a numeric suffix, and the earlier file keeps its content
C15_SuccessiveUploads ==
    [][\A s \in Sessions : Written(s) =>
          \A p \in upload[s].seen :
             (InDir(p, upload[s].dir) /\ disk[p].hint = upload[s].hint) =>
                /\ upload[s].target # p
                /\ Suffixed(upload[s].target, upload[s].dir, upload[s].hint)
                /\ disk'[upload[s].target].data = upload[s].data
                /\ disk'[p] = disk[p]]_vars

\* f.j was stored with x, then the same hint was uploaded with y and went to f_1.j
C15_Witness ==
    \E s \in Sessions :
       LET first == PHOTOS_DIR \o <<"f", ".", "j">>
           second == PHOTOS_DIR \o <<"f", "_", "1", ".", "j">>
       IN  /\ upload[s].pc = "none" /\ upload[s].photo = second
           /\ upload[s].hint = <<"f", ".", "j">>
           /\ first \in upload[s].seen
           /\ first \in DOMAIN disk /\ second \in DOMAIN disk
           /\ disk[first] = [data |-> <<"x">>, hint |-> <<"f", ".", "j">>]
           /\ disk[second] = [data |-> <<"y">>, hint |-> <<"f", ".", "j">>]

\* C16: a step in which an attachment write fails leaves the employees table as
\* it was and ends the script run; and the table only changes in a step of a
\* run that has no write pending, so a run whose write fails never changed it
C16_FailedUploadKeepsTable ==
    [][/\ \A s \in Sessions :
             (upload[s].pc = "chosen" /\ sess'[s].out = "OSError") =>
                 /\ employees' = employees
                 /\ seq' = seq
                 /\ sess'[s].pc = "idle"
       /\ employees' # employees =>
             \E s \in Sessions :
                /\ Uploading(s) /\ upload[s].pc = "none"
                /\ sess'[s].pc = "idle" /\ sess'[s].out = "ok"]_vars

\* a photo replacement failed at the write, and the row still has its earlier photo
C16_Witness ==
    \E s \in Sessions :
       /\ sess[s].pc = "idle" /\ sess[s].op = "replace_photo" /\ sess[s].out = "OSError"
       /\ \E r \in employees : r.photo_file = PHOTOS_DIR \o <<"f", ".", "j">>
       /\ PHOTOS_DIR \o <<"f", "_", "1", ".", "j">> \in DOMAIN disk

(***************************************************************************)
(* Validation                                                              *)
(***************************************************************************)
\* the operations whose form carries the business key
KeyedOps == {"add_station", "edit_station", "add_employee", "edit_employee"}

\* C17: an add or edit submission whose key is blank after trimming ends with a
\* validation error in the step that receives it, before the exists check, and
\* leaves both tables as they were; only a non-blank trimmed key goes on to the
\* exists check and the write
C17_BlankKeyRejected ==
    [][\A s \in Sessions :
          /\ (sess'[s] # sess[s] /\ sess'[s].out = "ValidationError") =>
                /\ sess'[s].op \in KeyedOps
                /\ sess'[s].pc = "idle"
                /\ ~sess'[s].checked
                /\ stations' = stations /\ employees' = employees /\ seq' = seq
          /\ (sess'[s].op \in KeyedOps /\ (sess'[s].pc = "write" \/ sess'[s].checked)) =>
                \/ sess'[s].pc = "idle"
                \/ sess'[s].key # <<>> /\ Strip(sess'[s].key) = sess'[s].key]_vars

\* an edit of an existing station was submitted with a blank name and rejected
C17_Witness ==
    \E s \in Sessions :
       /\ sess[s].pc = "idle" /\ sess[s].op = "edit_station"
       /\ sess[s].out = "ValidationError" /\ ~sess[s].checked
       /\ stations # {}

(***************************************************************************)
(* Bulk import                                                             *)
(***************************************************************************)
\* the script reads a row in this step / issues the row's add_station in this step
ReadsRow == job.pc = "row" /\ job'.pc # "idle" /\ job'.read = job.read + 1
AddsRow == job.pc = "checked" /\ job'.pc # "checked"

\* C18: an input row whose name is in the stations table when the row is read
\* does not go on to add_station, and one whose name is there when add_station
\* is issued is not inserted; either way the table is as it was
C18_DuplicateRowSkipped ==
    [][/\ (ReadsRow /\ station_exists(stations, job'.name, 0)) =>
             /\ job'.pc # "checked"
             /\ job'.out \in {"exists", "skipped", "AttributeError"}
             /\ stations' = stations /\ seq' = seq
       /\ (AddsRow /\ station_exists(stations, job.name, 0)) =>
             /\ job'.out = "IntegrityError"
             /\ stations' = stations /\ seq' = seq]_vars

\* the second row of a CSV file names a station that an import stored, and is skipped
C18_Witness ==
    /\ job.kind = "csv" /\ job.pc = "row" /\ job.read = 2
    /\ job.out = "exists" /\ job.skipped = 1
    /\ \E r \in stations : r.name = job.name /\ r.type = "Retranslyator"
    /\ seq.stations = Cardinality(stations)

Missing == Blank \cup {NoColumn, NoCell}

\* the row that an importer's add_station inserts has the default for every
\* missing or blank cell, and neither an empty region nor an empty type
Defaulted(kinds) ==
    (AddsRow /\ job.kind \in kinds) =>
        \A r \in stations' \ stations, row \in job.row :
           /\ r.region # "" /\ r.type # ""
           /\ row.region \in Missing => r.region = DEFAULT_REGION
           /\ row.type \in Missing => r.type = DEFAULT_TYPE

\* C19: every station that an importer inserts has a non-empty region and a
\* non-empty type, the fixed defaults where the input cell is missing or blank
C19_ImportDefaults == [][Defaulted(Importers)]_vars

\* the Excel importer does store the defaults
ExcelImportDefaults == [][Defaulted({"excel"})]_vars

(***************************************************************************)
(* Viewer's notes                                                          *)
(***************************************************************************)
\* session s takes the step that is its save-notes update_station call
SavesNotes(s) ==
    sess[s].pc = "fetched" /\ sess[s].op = "save_notes" /\ sess'[s].pc = "idle"

\* the step leaves every station row in place, the targeted one up to its notes
OnlyNotesOf(station_id) ==
    /\ \A r \in stations :
          \E q \in stations' :
             /\ q.id = r.id
             /\ [q EXCEPT !.notes = r.notes] = r
             /\ r.id # station_id => q = r
    /\ \A q \in stations' : \E r \in stations : r.id = q.id

\* C20: a viewer's save-notes step changes nothing but the notes of the station
\* it targets, whatever happened to that station since the viewer's page render
C20_SaveNotesOnlyNotes ==
    [][\A s \in Sessions : SavesNotes(s) => OnlyNotesOf(sess[s].id)]_vars

\* it does so when the station still is as the viewer's page render fetched it
SaveNotesOfUnchangedRow ==
    [][\A s \in Sessions :
          (SavesNotes(s) /\ sess[s].snap \subseteq stations) =>
              OnlyNotesOf(sess[s].id)]_vars

(***************************************************************************)
(* Daily statistics                                                        *)
(***************************************************************************)
\* C27: for a date without maintenance records get_maintenance_stats returns the
\* integer 0 as total_maintained, as repairs and as services
C27_ZeroOnEmptyDay ==
    \A d \in Days :
        LET stats == get_maintenance_stats(maintenance, d, now) IN
        Dated(d) = {} =>
            /\ stats.total_maintained = SqlInt(0)
            /\ stats.repairs = SqlInt(0)
            /\ stats.services = SqlInt(0)

\* of the three, COUNT(DISTINCT station_id) is 0 on such a date
CountIsZeroOnEmptyDay ==
    \A d \in Days :
        Dated(d) = {} => get_maintenance_stats(maintenance, d, now).total_maintained = SqlInt(0)

\* the integer of a column value that is not NULL
IntOf(v) == CHOOSE n \in v : TRUE

\* the sum of column k over the rows of a result
RECURSIVE SumColumn(_, _)
SumColumn(rows, k) ==
    IF rows = <<>> THEN 0 ELSE IntOf(Head(rows)[k]) + SumColumn(Tail(rows), k)

\* the by-region rows of date d for the filter "all" add up to the daily statistics
SumsMatch(d) ==
    LET rows == get_maintenance_stats_by_region(maintenance, stations, d, ALL, now)
        stats == get_maintenance_stats(maintenance, d, now)
    IN  /\ stats.total_maintained = SqlInt(SumColumn(rows, 2))
        /\ stats.repairs = SqlInt(SumColumn(rows, 3))
        /\ stats.services = SqlInt(SumColumn(rows, 4))

\* C28: for every date, the sums over the rows of the by-region statistics (all
\* regions) of the distinct stations, the repairs and the services equal the
\* three numbers of the daily statistics, in every reachable state
C28_RegionSumsEqualDaily == \A d \in Days : SumsMatch(d)

\* they do on a date that has records, all of stations that still exist
RegionSumsOfLiveServicedDay ==
    \A d \in Days :
        (Dated(d) # {} /\ Dated(d) \cap Orphans = {}) => SumsMatch(d)

(***************************************************************************)
(* Station identifiers                                                     *)
(***************************************************************************)
\* C29: a station id is never handed out twice: every id in the table or in a
\* maintenance record is at most the last id of sqlite_sequence, which never
\* decreases, and a row added in a step gets a larger id than that, so no
\* maintenance record has the id of a station added later
C29_IdsNeverReused ==
    [][/\ \A r \in stations' : r.id <= seq'.stations
       /\ \A m \in maintenance' : m.station_id <= seq'.stations
       /\ seq'.stations >= seq.stations
       /\ \A q \in stations' :
             (\A r \in stations : r.id # q.id) =>
                 /\ q.id > seq.stations
                 /\ \A m \in maintenance' : m.station_id # q.id]_vars

\* station 1 was serviced and deleted, and the station added after it is station 2
C29_Witness ==
    /\ \E m \in maintenance : m.station_id = 1
    /\ {r.id : r \in stations} = {2}
    /\ seq.stations = 2

(***************************************************************************)
(* Repeated update, exists                                                 *)
(***************************************************************************)
\* the payloads of the edit forms of this model
StationPayloads ==
    {station_form(Strip(raw), region, notes, "", "") :
        raw \in RawKeys \ {<<>>, <<" ">>}, region \in OneRegion, notes \in NotesValues}
EmployeePayloads ==
    {employee_form(Strip(raw), "", photo_file) :
        raw \in RawKeys \ {<<>>, <<" ">>}, photo_file \in Uploads}

\* C22: in every reachable state, for every row and payload, an update that
\* succeeds, made a second time with the same payload, succeeds again and leaves
\* the table as the first left it; the exists check of the edit form does not
\* report the row's own key
C22_UpdateTwice ==
    /\ \A r \in stations, v \in StationPayloads :
          LET once == update_station(stations, r.id, v)
              twice == update_station(once.tbl, r.id, v)
          IN  once.err = "ok" =>
                 /\ twice.err = "ok" /\ twice.tbl = once.tbl
                 /\ ~station_exists(once.tbl, v.name, r.id)
    /\ \A r \in employees, v \in EmployeePayloads :
          LET once == update_employee(employees, r.id, v)
              twice == update_employee(once.tbl, r.id, v)
          IN  once.err = "ok" =>
                 /\ twice.err = "ok" /\ twice.tbl = once.tbl
                 /\ ~tabel_exists(once.tbl, v.rakami_tabel, r.id)

\* both sessions' edits of the station succeeded, and the table is what one more
\* update with the stored values gives
C22_Witness ==
    /\ \A s \in Sessions :
          sess[s].pc = "idle" /\ sess[s].op = "edit_station" /\ sess[s].out = "ok"
             /\ sess[s].rowcount = 1
    /\ \E r \in stations :
          /\ r.name = <<"b">> /\ r.notes = <<"n">>
          /\ update_station(stations, r.id, RowData(r)).tbl = stations
          /\ update_station(stations, r.id, RowData(r)).err = "ok"

\* the keys and ids the exists functions are asked about
AskedKeys == {Strip(raw) : raw \in RawKeys}
AskedIds == 1..MaxIds

\* C23: station_exists(name, exclude_id) and tabel_exists(key, exclude_id) are
\* true exactly when a row with another id has the key, and without exclude_id
\* exactly when any row has it; a row's own key, held by no other row, is not
\* reported when its id is excluded
C23_ExistsExcludes ==
    /\ \A k \in AskedKeys :
          /\ station_exists(stations, k, 0) <=> k \in {r.name : r \in stations}
          /\ tabel_exists(employees, k, 0) <=> k \in {r.rakami_tabel : r \in employees}
          /\ \A id \in AskedIds :
                /\ station_exists(stations, k, id)
                      <=> k \in {r.name : r \in {q \in stations : q.id # id}}
                /\ tabel_exists(employees, k, id)
                      <=> k \in {r.rakami_tabel : r \in {q \in employees : q.id # id}}
    /\ \A r \in stations :
          Cardinality({q \in stations : q.name = r.name}) = 1
              => ~station_exists(stations, r.name, r.id)
    /\ \A r \in employees :
          Cardinality({q \in employees : q.rakami_tabel = r.rakami_tabel}) = 1
              => ~tabel_exists(employees, r.rakami_tabel, r.id)

\* two stations; an edit of one of them was checked against the other's name
C23_Witness ==
    /\ Cardinality(stations) = 2
    /\ \E r \in stations :
          /\ station_exists(stations, r.name, 0)
          /\ ~station_exists(stations, r.name, r.id)
          /\ \E q \in stations : q.id # r.id /\ station_exists(stations, r.name, q.id)
    /\ \E s \in Sessions :
          sess[s].pc = "idle" /\ sess[s].op = "edit_station" /\ sess[s].out = "exists"

(***************************************************************************)
(* Connections                                                             *)
(***************************************************************************)
\* C24: every open connection is held by a repository call in progress: none
\* is left open, with or without an uncommitted transaction, by a call that
\* control has left, whether its statement succeeded or raised
C24_ConnectionsClosed ==
    \A c \in conns : c.state # "abandoned" /\ c \in Held(c.owner)

\* a call whose statement succeeds closes its connection: the connections left
\* open are those of statements that raised
OnlyFailedCallsLeak ==
    /\ \A c \in conns :
          c.state = "abandoned" => c.err \in {"IntegrityError", "OperationalError"}
    /\ \A s \in Sessions : Cardinality(Held(s)) <= 1

(***************************************************************************)
(* Concurrent uploads                                                      *)
(***************************************************************************)
\* session s's safe_write_file call has returned the path upload[s].photo
Returned(s) == upload[s].pc = "none" /\ upload[s].photo # <<>>

\* C30: however two safe_write_file calls with the same hint and directory are
\* interleaved, they return different paths and the file at each returned path
\* holds the bytes of the call that returned it; a call's probing ends after at
\* most as many suffixes as there are files
C30_ConcurrentUploads ==
    /\ \A s \in Sessions :
          upload[s].pc = "chosen" => upload[s].i <= Cardinality(upload[s].seen)
    /\ \A s \in Sessions :
          (Returned(s) /\ Returned(Other(s))
             /\ upload[s].hint = upload[Other(s)].hint
             /\ upload[s].dir = upload[Other(s)].dir) =>
                /\ upload[s].photo # upload[Other(s)].photo
                /\ disk[upload[s].photo].data = upload[s].data

\* the probing of a call ends, at a path that did not exist when it ended
ProbeEndsAtFreePath ==
    \A s \in Sessions :
       upload[s].pc = "chosen" =>
          /\ upload[s].i <= Cardinality(upload[s].seen)
          /\ upload[s].target \notin upload[s].seen

(***************************************************************************)
(* Login and logout                                                        *)
(***************************************************************************)
\* session s takes a step that ends its login: a press of a logout button
LogsOut(s) == session_state[s].authed = "True" /\ session_state'[s].authed # "True"

\* session s takes a step that logs it in
LogsIn(s) == session_state[s].authed # "True" /\ session_state'[s].authed = "True"

\* C25: a press of either logout button removes the three session keys authed,
\* role and page, so the login that follows finds no page of the session before
C25_LogoutRemovesKeys ==
    [][\A s \in Sessions :
          /\ LogsOut(s) => session_state'[s] = NewSession /\ role'[s] = ABSENT
          /\ (LogsIn(s) /\ role'[s] = "admin") => session_state'[s].page = ABSENT]_vars

\* the sidebar's button removes the three keys
SidebarLogoutRemovesKeys ==
    [][\A s \in Sessions :
          (LogsOut(s) /\ sess'[s].op = "logout_sidebar") =>
              session_state'[s] = NewSession /\ role'[s] = ABSENT]_vars

\* the runs that are not a fetch, add, update, delete or maintenance operation
AuthOps == {"none", "login_page", "login", "logout", "logout_sidebar"}

\* session s takes a step of a repository operation
Operates(s) == sess'[s] # sess[s] /\ sess'[s].op \notin AuthOps

\* the tables are as they were
TablesKept == UNCHANGED <<stations, employees, maintenance>>

\* the login button was pressed in session s, with sess'[s].key in the password box
Submits(s) == sess'[s] # sess[s] /\ sess'[s].op = "login"

\* C26 as stated: no repository operation runs in a session whose authed flag is
\* not true; a session with authed true has the role admin and its password is in
\* the admin list, or the role viewer and its password is in the viewer list only;
\* a password in neither list leaves the session unauthenticated
C26_RoleOfSubmittedPassword ==
    [][\A s \in Sessions :
          /\ Operates(s) => session_state[s].authed = "True"
          /\ (\A t \in Sessions : session_state[t].authed # "True") => TablesKept
          /\ session_state'[s].authed = "True" => role'[s] \in {"admin", "viewer"}
          /\ Submits(s) =>
               LET pwd == sess'[s].key IN
               /\ LogsIn(s) /\ role'[s] = "admin" <=> pwd \in ADMIN_PASSWORDS
               /\ LogsIn(s) /\ role'[s] = "viewer" <=>
                     pwd \in VIEWER_PASSWORDS \ ADMIN_PASSWORDS
               /\ pwd \notin ADMIN_PASSWORDS \cup VIEWER_PASSWORDS =>
                     session_state'[s].authed # "True"]_vars

\* C26, amended: the same, of the submitted password without the white space
\* around it
C26_RoleOfStrippedPassword ==
    [][\A s \in Sessions :
          /\ Operates(s) => session_state[s].authed = "True"
          /\ (\A t \in Sessions : session_state[t].authed # "True") => TablesKept
          /\ session_state'[s].authed = "True" => role'[s] \in {"admin", "viewer"}
          /\ (session_state[s].authed = "True" /\ session_state'[s].authed = "True") =>
                role'[s] = role[s]
          /\ Submits(s) =>
               LET p == Strip(sess'[s].key) IN
               /\ LogsIn(s) /\ role'[s] = "admin" <=> p \in ADMIN_PASSWORDS
               /\ LogsIn(s) /\ role'[s] = "viewer" <=>
                     p \in VIEWER_PASSWORDS \ ADMIN_PASSWORDS
               /\ p \notin ADMIN_PASSWORDS \cup VIEWER_PASSWORDS =>
                     session_state'[s].authed # "True"]_vars

\* a viewer has logged in with a space typed after the password, next to stored stations
C26_Witness ==
    \E s \in Sessions :
       /\ session_state[s].authed = "True" /\ role[s] = "viewer"
       /\ sess[s].op = "login" /\ sess[s].key = <<"1", " ">>
       /\ stations # {}

(***************************************************************************)
(* Roles                                                                   *)
(***************************************************************************)
\* session s, whose role is not admin, takes a step of a run
ActsAsNonAdmin(s) == role[s] # "admin" /\ sess'[s] # sess[s]

\* the step inserts no station row and deletes none
SameStationIds == {r.id : r \in stations'} = {r.id : r \in stations}

\* the step changes no column of a station row but notes
NotesOnly ==
    \A r \in stations, q \in stations' : q.id = r.id => [q EXCEPT !.notes = r.notes] = r

\* the step deletes no maintenance record and changes none
RecordsKept == maintenance \subseteq maintenance'

\* C21: a step of a session whose role is not admin inserts or deletes no employee
\* or station row, changes no employee row and is no export; all it changes in
\* the store is the notes of a station, or it inserts maintenance records
C21_NonAdminMutations ==
    [][\A s \in Sessions :
          ActsAsNonAdmin(s) =>
             /\ employees' = employees
             /\ SameStationIds
             /\ sess'[s].op # "export"
             /\ NotesOnly
             /\ RecordsKept]_vars

\* the gates: such a step inserts or deletes no row of stations or employees, changes
\* no employee row, is no export, and deletes no maintenance record
NonAdminGates ==
    [][\A s \in Sessions :
          ActsAsNonAdmin(s) =>
             /\ employees' = employees
             /\ SameStationIds
             /\ sess'[s].op \in {"save_notes", "save_maintenance"}
             /\ RecordsKept]_vars

=============================================================================
